---- MODULE Spec2Model ----
(***************************************************************************)
(* Account & entitlement state machine of login_form: the users database   *)
(* (src/db/users_db.py), the subscriptions database                        *)
(* (src/db/subscriptions_db.py) and the orchestrator (src/auth/service.py).*)
(*                                                                         *)
(* Every orchestrator function is one action that runs to completion; the  *)
(* Respond step then hands its result to the caller.  Collections are sets *)
(* of documents; db.users is a sequence, so that find_one returns the      *)
(* first document in insertion order.                                      *)
(*                                                                         *)
(* Abstractions:                                                           *)
(*  - sha256(salt + pw) is the pair <<salt, pw>> (collision free);         *)
(*  - secrets.token_urlsafe(16) yields a value never drawn before, the     *)
(*    next natural number (128 random bits do not repeat);                 *)
(*  - secrets.token_hex(16) for salts is any element of Salts;             *)
(*  - the clock is in minutes; str(ObjectId) of the n-th inserted user is  *)
(*    UserIdOf(n);                                                         *)
(*  - a raised Python exception is the result [status |-> "raised", ...];  *)
(*  - created_at of a user document is never read and is left out.         *)
(*                                                                         *)
(* pre, issued and run are history variables: they record what happened    *)
(* and no handler reads them.                                              *)
(***************************************************************************)
EXTENDS Integers, Sequences, FiniteSets, TLC

VARIABLES
    users,            \* db.users: sequence of user documents
    verify_tokens,    \* db.verify_tokens: set of {email, token, expires_at}
    password_resets,  \* db.password_resets: set of {email, token, expires_at}
    plans,            \* db.plans: set of plan documents
    subscriptions,    \* db.subscriptions: set of {user_id, plan_id}
    usage,            \* db.usage: set of {user_id, date, current_usage, recent_activities}
    now,              \* datetime.now(timezone.utc), in minutes
    nextToken,        \* the next value secrets.token_urlsafe returns
    call,             \* the orchestrator call being answered, or Idle
    ret,              \* what that call returned (or raised)
    pre,              \* history: the database and the clock as that call found them
    issued,           \* history: issued[t] tells for whom and what token t was
                      \* issued and whether it has been consumed
    run,              \* history: the logins with correct credentials of the
                      \* verified account (SpecQuota); the registrations that
                      \* failed and the outcome of the last dispatch (SpecRegister)
    threads,          \* SpecConc: where each concurrently served request stands
    flow              \* SpecFlow: the workflow run: its node, its state dict,
                      \* and the history of the nodes it ran

vars == <<users, verify_tokens, password_resets, plans, subscriptions, usage,
          now, nextToken, call, ret, pre, issued, run, threads, flow>>

dbvars == <<users, verify_tokens, password_resets, plans, subscriptions, usage>>

----------------------------------------------------------------------------
(* Bounds of the model *)

MaxTokens == 3
MaxTime == 30
TickMinutes == 15
MaxUsage == 4
QuotaMaxUsage == 11
MaxLogins == 12
MaxActivities == 102
MaxDay == 1
MaxRecorded == 4

(* Program constants *)

TTL_MIN == 15
VERIFY_GRACE_MIN == 15
MAX_ACTIVITIES == 100
MINUTES_PER_DAY == 1440

(* Inputs *)

Names == {"Ann"}
Emails == {"ann@x.com", "bob@x.com"}
Phones == {"+1555", "+1666"}
Passwords == {"password123", "hunter2222"}
Salts == {"s1", "s2"}
Identifiers == Emails \cup Phones
TokenStrings == 1..MaxTokens
PlanInputs == {"free", "pro", "gold", ""}
Features == {"image"}
SmtpOutcomes == {"sent", "smtp_error"}

SoleEmail == {"ann@x.com"}
SolePhone == {"+1555"}
SoleSalt == {"s1"}
SolePassword == {"password123"}
QuotaPlanInputs == {"free", "basic", "pro"}

UserIdOf(n) == n
UserIdInputs == {UserIdOf(1), UserIdOf(2)}
SoleUserId == {UserIdOf(1)}

----------------------------------------------------------------------------
(* src/db/users_db.py *)

salted_hash(pw, salt) == <<salt, <<salt, pw>>>>

\* a verify_password that accepts any password
verify_password_any(pw, salt, digest) == TRUE

verify_password(pw, salt, digest) ==
    LET check == salted_hash(pw, salt)[2] IN check = digest

\* insert_one when the unique index on email was never created
UniqueIndexAllows_phone_only(us, email, phone) ==
    \A i \in 1..Len(us) : us[i].phone # phone

\* insert_one when the unique index on phone was never created
UniqueIndexAllows_email_only(us, email, phone) ==
    \A i \in 1..Len(us) : us[i].email # email

\* insert_one under the unique indexes on email and on phone
UniqueIndexAllows(us, email, phone) ==
    \A i \in 1..Len(us) : us[i].email # email /\ us[i].phone # phone

create_user_doc(us, full_name, email, phone, password, salt) ==
    [_id |-> UserIdOf(Len(us) + 1),
     full_name |-> full_name,
     email |-> email,
     phone |-> phone,
     password_salt |-> salted_hash(password, salt)[1],
     password_hash |-> salted_hash(password, salt)[2],
     verified |-> FALSE,
     status |-> "active"]

\* what create_user returns for the inserted document
create_user(doc) ==
    [id |-> doc._id, email |-> doc.email, full_name |-> doc.full_name,
     phone |-> doc.phone, verified |-> FALSE]

MatchingUsers(us, identifier) ==
    {i \in 1..Len(us) : us[i].email = identifier \/ us[i].phone = identifier}

NoUser == [_id |-> 0]

get_user_by_identifier(us, identifier) ==
    IF MatchingUsers(us, identifier) = {} THEN NoUser
    ELSE us[CHOOSE i \in MatchingUsers(us, identifier) :
                \A j \in MatchingUsers(us, identifier) : i <= j]

\* update_one: only the first matching document is updated
FirstByEmail(us, email) ==
    CHOOSE i \in 1..Len(us) :
        /\ us[i].email = email
        /\ \A j \in 1..Len(us) : us[j].email = email => i <= j

\* a set_verified whose update matches nothing
set_verified_matches_nothing(us, email) == us

set_verified(us, email) ==
    IF \E i \in 1..Len(us) : us[i].email = email
    THEN [us EXCEPT ![FirstByEmail(us, email)].verified = TRUE]
    ELSE us

\* a set_new_password that stores the new digest but not its salt
set_new_password_keeps_salt(us, email, new_password, salt) ==
    IF \E i \in 1..Len(us) : us[i].email = email
    THEN [us EXCEPT ![FirstByEmail(us, email)].password_hash = salted_hash(new_password, salt)[2]]
    ELSE us

\* a set_new_password that also marks the account verified
set_new_password_verifies(us, email, new_password, salt) ==
    IF \E i \in 1..Len(us) : us[i].email = email
    THEN [us EXCEPT ![FirstByEmail(us, email)].password_salt = salted_hash(new_password, salt)[1],
                    ![FirstByEmail(us, email)].password_hash = salted_hash(new_password, salt)[2],
                    ![FirstByEmail(us, email)].verified = TRUE]
    ELSE us

set_new_password(us, email, new_password, salt) ==
    IF \E i \in 1..Len(us) : us[i].email = email
    THEN [us EXCEPT ![FirstByEmail(us, email)].password_salt = salted_hash(new_password, salt)[1],
                    ![FirstByEmail(us, email)].password_hash = salted_hash(new_password, salt)[2]]
    ELSE us

create_verify_token(vt, email, token, t) ==
    {r \in vt : r.email # email}
        \cup {[email |-> email, token |-> token, expires_at |-> t + TTL_MIN]}

\* the value consume_verify_token compares with the clock
verify_expires_at(rec, t) == t + VERIFY_GRACE_MIN

consume_verify_token_ok(vt, email, token, t) ==
    /\ \E rec \in vt : rec.email = email /\ rec.token = token
    /\ \A rec \in vt : (rec.email = email /\ rec.token = token)
                           => ~(verify_expires_at(rec, t) < t)

consume_verify_token_rows(vt, email, token) ==
    IF \E rec \in vt : rec.email = email /\ rec.token = token
    THEN {r \in vt : r.email # email}
    ELSE vt

\* a create_reset_token that forgets delete_many
create_reset_token_keeps_old(pr, email, token, t) ==
    pr \cup {[email |-> email, token |-> token, expires_at |-> t + TTL_MIN]}

\* a create_reset_token whose delete_many filters on the new token instead of the email
create_reset_token_deletes_by_token(pr, email, token, t) ==
    {r \in pr : r.token # token}
        \cup {[email |-> email, token |-> token, expires_at |-> t + TTL_MIN]}

create_reset_token(pr, email, token, t) ==
    {r \in pr : r.email # email}
        \cup {[email |-> email, token |-> token, expires_at |-> t + TTL_MIN]}

\* a consume_reset_token that never looks at expires_at
consume_reset_token_ok_any_age(pr, email, token, t) ==
    \E rec \in pr : rec.email = email /\ rec.token = token

\* a consume_reset_token that also looks the token up among the verification tokens
consume_reset_token_ok_any_purpose(pr, email, token, t) ==
    /\ \E rec \in pr \cup verify_tokens : rec.email = email /\ rec.token = token
    /\ \A rec \in pr \cup verify_tokens : (rec.email = email /\ rec.token = token)
                           => ~(rec.expires_at < t)

consume_reset_token_ok(pr, email, token, t) ==
    /\ \E rec \in pr : rec.email = email /\ rec.token = token
    /\ \A rec \in pr : (rec.email = email /\ rec.token = token)
                           => ~(rec.expires_at < t)

\* a consume_reset_token that forgets delete_many
consume_reset_token_rows_kept(pr, email, token) == pr

consume_reset_token_rows(pr, email, token) ==
    IF \E rec \in pr : rec.email = email /\ rec.token = token
    THEN {r \in pr : r.email # email}
    ELSE pr

----------------------------------------------------------------------------
(* src/db/subscriptions_db.py *)

SeedPlans ==
    { [plan_id |-> "free", name |-> "Free", price |-> 0, usage_limit |-> 3,
       features |-> <<"login", "image_basic">>],
      [plan_id |-> "basic", name |-> "Basic", price |-> 9, usage_limit |-> 10,
       features |-> <<"login", "image_basic", "report_basic">>],
      [plan_id |-> "pro", name |-> "Pro", price |-> 29, usage_limit |-> 100,
       features |-> <<"login", "image_advanced", "report_basic">>] }

\* an init_subs_db whose emptiness test is inverted
init_subs_db_seeds_when_present(ps) == IF Cardinality(ps) # 0 THEN SeedPlans ELSE ps

init_subs_db(ps) == IF Cardinality(ps) = 0 THEN SeedPlans ELSE ps

HasPlan(ps, pid) == \E p \in ps : p.plan_id = pid

get_plan(ps, pid) == CHOOSE p \in ps : p.plan_id = pid

RECURSIVE SortByPrice(_)
SortByPrice(ps) ==
    IF ps = {} THEN <<>>
    ELSE LET lo == CHOOSE p \in ps : \A q \in ps : p.price <= q.price
         IN <<lo>> \o SortByPrice(ps \ {lo})

list_plans(ps) == SortByPrice(ps)

FallbackFree ==
    [plan_id |-> "free", name |-> "Free", price |-> 0, usage_limit |-> 3,
     features |-> <<"login", "image_basic">>]

StoredPlanId(subs, user_id) ==
    IF \E s \in subs : s.user_id = user_id
    THEN (CHOOSE s \in subs : s.user_id = user_id).plan_id
    ELSE "free"

\* an update_one that inserts a row without matching the existing one
UpsertSubscription_insert_only(subs, user_id, plan_id) ==
    subs \cup {[user_id |-> user_id, plan_id |-> plan_id]}

\* an update_one that writes with $setOnInsert: an existing row keeps its plan
UpsertSubscription_keeps_existing(subs, user_id, plan_id) ==
    IF \E s \in subs : s.user_id = user_id THEN subs
    ELSE subs \cup {[user_id |-> user_id, plan_id |-> plan_id]}

UpsertSubscription(subs, user_id, plan_id) ==
    {s \in subs : s.user_id # user_id}
        \cup {[user_id |-> user_id, plan_id |-> plan_id]}

PlanView(plan) ==
    [plan_id |-> plan.plan_id, plan_name |-> plan.name, price |-> plan.price,
     usage_limit |-> plan.usage_limit, features |-> plan.features]

\* the view get_subscription returns
get_subscription(ps, subs, user_id) ==
    IF HasPlan(ps, StoredPlanId(subs, user_id))
    THEN PlanView(get_plan(ps, StoredPlanId(subs, user_id)))
    ELSE IF HasPlan(ps, "free") THEN PlanView(get_plan(ps, "free"))
         ELSE PlanView(FallbackFree)

\* a get_subscription that returns the fallback view without healing the row
get_subscription_rows_not_healed(ps, subs, user_id) == subs

\* db.subscriptions after get_subscription: healed to free when the plan is missing
get_subscription_rows(ps, subs, user_id) ==
    IF HasPlan(ps, StoredPlanId(subs, user_id)) THEN subs
    ELSE UpsertSubscription(subs, user_id, "free")

\* db.subscriptions after a set_subscription that did not raise
set_subscription_rows(ps, subs, user_id, plan_id) ==
    get_subscription_rows(ps, UpsertSubscription(subs, user_id, plan_id), user_id)

set_subscription(ps, subs, user_id, plan_id) ==
    get_subscription(ps, UpsertSubscription(subs, user_id, plan_id), user_id)

\* a _today that does not follow the clock
today_of_startup(t) == 0

today(t) == t \div MINUTES_PER_DAY

HasUsage(us, user_id, t) ==
    \E d \in us : d.user_id = user_id /\ d.date = today(t)

UsageDoc(us, user_id, t) ==
    CHOOSE d \in us : d.user_id = user_id /\ d.date = today(t)

\* a record_activity that forgets acts[:100]
Head100_uncapped(acts) == acts

Head100(acts) ==
    SubSeq(acts, 1, IF Len(acts) < MAX_ACTIVITIES THEN Len(acts) ELSE MAX_ACTIVITIES)

\* a record_login that only inserts: $inc is lost on an existing document
record_login_insert_only(us, user_id, t) ==
    IF HasUsage(us, user_id, t) THEN us
    ELSE us \cup {[user_id |-> user_id, date |-> today(t), current_usage |-> 1,
                   recent_activities |-> <<>>]}

record_login(us, user_id, t) ==
    IF HasUsage(us, user_id, t)
    THEN (us \ {UsageDoc(us, user_id, t)})
            \cup {[UsageDoc(us, user_id, t) EXCEPT !.current_usage = @ + 1]}
    ELSE us \cup {[user_id |-> user_id, date |-> today(t), current_usage |-> 1,
                   recent_activities |-> <<>>]}

\* a record_activity whose update sets the list but has no $inc
record_activity_without_inc(us, user_id, feature, t) ==
    LET acts == IF HasUsage(us, user_id, t)
                THEN UsageDoc(us, user_id, t).recent_activities ELSE <<>>
        acts2 == Head100(<<[feature |-> feature, timestamp |-> t]>> \o acts)
    IN IF HasUsage(us, user_id, t)
       THEN (us \ {UsageDoc(us, user_id, t)})
               \cup {[UsageDoc(us, user_id, t) EXCEPT !.recent_activities = acts2]}
       ELSE us \cup {[user_id |-> user_id, date |-> today(t), current_usage |-> 0,
                      recent_activities |-> acts2]}

record_activity(us, user_id, feature, t) ==
    LET acts == IF HasUsage(us, user_id, t)
                THEN UsageDoc(us, user_id, t).recent_activities ELSE <<>>
        acts2 == Head100(<<[feature |-> feature, timestamp |-> t]>> \o acts)
    IN IF HasUsage(us, user_id, t)
       THEN (us \ {UsageDoc(us, user_id, t)})
               \cup {[UsageDoc(us, user_id, t) EXCEPT !.recent_activities = acts2,
                                                       !.current_usage = @ + 1]}
       ELSE us \cup {[user_id |-> user_id, date |-> today(t), current_usage |-> 1,
                      recent_activities |-> acts2]}

\* a get_usage whose filter matches no record
get_usage_never_finds(us, user_id, t) ==
    [current_usage |-> 0, period |-> "Today", recent_activities |-> <<>>]

\* a get_usage whose empty view counts from 1
get_usage_counts_from_one(us, user_id, t) ==
    IF ~HasUsage(us, user_id, t)
    THEN [current_usage |-> 1, period |-> "Today", recent_activities |-> <<>>]
    ELSE [current_usage |-> UsageDoc(us, user_id, t).current_usage,
          period |-> "Today",
          recent_activities |-> UsageDoc(us, user_id, t).recent_activities]

get_usage(us, user_id, t) ==
    IF ~HasUsage(us, user_id, t)
    THEN [current_usage |-> 0, period |-> "Today", recent_activities |-> <<>>]
    ELSE [current_usage |-> UsageDoc(us, user_id, t).current_usage,
          period |-> "Today",
          recent_activities |-> UsageDoc(us, user_id, t).recent_activities]

----------------------------------------------------------------------------
(* src/auth/service.py *)

Idle == [op |-> "idle"]

NoRun == [k |-> 0, ok |-> 0, limits |-> {}, feature_used |-> FALSE, features |-> 0,
          failed |-> {}, smtp |-> "sent", acts |-> <<>>,
          refused |-> FALSE, upgraded |-> FALSE, before |-> <<FALSE, FALSE>>]

Threads == {"t1", "t2"}

ThreadIdle == [pc |-> "idle"]

NoFlow == [node |-> "idle"]

NoReturn == [status |-> "none"]

\* a handler runs when no other call is being answered, and leaves its result
Snapshot ==
    [users |-> users, verify_tokens |-> verify_tokens,
     password_resets |-> password_resets, plans |-> plans,
     subscriptions |-> subscriptions, usage |-> usage, now |-> now,
     issued |-> issued]

NoSnapshot == [now |-> 0]

Returns(c, r) ==
    /\ call = Idle
    /\ call' = c
    /\ ret' = r
    /\ pre' = Snapshot

Issue(purpose, email) ==
    Append(issued, [purpose |-> purpose, email |-> email, consumed |-> FALSE])

Consume(token) == [issued EXCEPT ![token].consumed = TRUE]

\* the transport layer hands the result to the caller
Respond ==
    /\ call # Idle
    /\ call' = Idle
    /\ ret' = NoReturn
    /\ pre' = NoSnapshot
    /\ UNCHANGED <<dbvars, now, nextToken, issued>>

Raised(type) == [status |-> "raised", type |-> type]

\* _send_email either returns or lets the SMTP error propagate (smtp)
register_user(full_name, email, phone, password, plan_id, salt, smtp) ==
    LET c == [op |-> "register_user", full_name |-> full_name, email |-> email,
              phone |-> phone, password |-> password, plan_id |-> plan_id]
        doc == create_user_doc(users, full_name, email, phone, password, salt)
        u == create_user(doc)
        pid == IF plan_id = "" THEN "free" ELSE plan_id
    IN IF ~UniqueIndexAllows(users, email, phone)
       THEN /\ Returns(c, Raised("DuplicateKeyError"))
            /\ UNCHANGED <<dbvars, now, nextToken, issued>>
       ELSE /\ users' = Append(users, doc)
            /\ verify_tokens' = create_verify_token(verify_tokens, email, nextToken, now)
            /\ nextToken' = nextToken + 1
            /\ issued' = Issue("verify", email)
            /\ IF smtp = "smtp_error"
               THEN /\ Returns(c, Raised("SMTPException"))
                    /\ UNCHANGED subscriptions
               ELSE IF ~HasPlan(plans, pid)
               THEN /\ Returns(c, Raised("ValueError"))
                    /\ UNCHANGED subscriptions
               ELSE /\ subscriptions' = set_subscription_rows(plans, subscriptions, u.id, pid)
                    /\ Returns(c, [status |-> "success",
                                   message |-> "Registration created, please verify with OTP.",
                                   user_id |-> u.id])
            /\ UNCHANGED <<password_resets, plans, usage, now>>

verify_account(email, token) ==
    LET c == [op |-> "verify_account", email |-> email, token |-> token]
    IN /\ verify_tokens' = consume_verify_token_rows(verify_tokens, email, token)
       /\ IF ~consume_verify_token_ok(verify_tokens, email, token, now)
          THEN /\ Returns(c, [status |-> "error",
                              message |-> "Invalid or expired verification token."])
               /\ UNCHANGED <<users, issued>>
          ELSE /\ users' = set_verified(users, email)
               /\ issued' = Consume(token)
               /\ Returns(c, [status |-> "success",
                              message |-> "Account verified. Please login."])
       /\ UNCHANGED <<password_resets, plans, subscriptions, usage, now, nextToken>>

\* a login_user that skips the verification check
is_verified_unchecked(u) == TRUE

is_verified(u) == u.verified

\* a usage gate that compares with the limit of the free plan
quota_reached_on_free(usg, sub) == usg.current_usage >= 3

\* a usage gate that compares with > instead of >=
quota_reached_one_late(usg, sub) == usg.current_usage > sub.usage_limit

quota_reached(usg, sub) == usg.current_usage >= sub.usage_limit

\* a login_user that returns the user document itself
PublicUser_whole_document(u) == u

PublicUser(u) ==
    [id |-> u._id, name |-> u.full_name, email |-> u.email, phone |-> u.phone]

login_user(identifier, password) ==
    LET c == [op |-> "login_user", identifier |-> identifier, password |-> password]
        u == get_user_by_identifier(users, identifier)
        sub == get_subscription(plans, subscriptions, u._id)
        usg == get_usage(usage, u._id, now)
    IN IF u = NoUser
       THEN /\ Returns(c, [status |-> "error", message |-> "User not found."])
            /\ UNCHANGED <<dbvars, now, nextToken, issued>>
       ELSE IF ~verify_password(password, u.password_salt, u.password_hash)
       THEN /\ Returns(c, [status |-> "error", message |-> "Invalid credentials."])
            /\ UNCHANGED <<dbvars, now, nextToken, issued>>
       ELSE IF ~is_verified(u)
       THEN /\ Returns(c, [status |-> "verification_required",
                           message |-> "Verification required. Check email for OTP.",
                           email |-> u.email])
            /\ UNCHANGED <<dbvars, now, nextToken, issued>>
       ELSE /\ subscriptions' = get_subscription_rows(plans, subscriptions, u._id)
            /\ IF quota_reached(usg, sub)
               THEN /\ Returns(c, [status |-> "error",
                                   message |-> "Daily login limit reached."])
                    /\ UNCHANGED usage
               ELSE /\ usage' = record_login(usage, u._id, now)
                    /\ Returns(c, [status |-> "success",
                                   message |-> "Login successful.",
                                   user |-> PublicUser(u)])
            /\ UNCHANGED <<users, verify_tokens, password_resets, plans, now, nextToken, issued>>

\* a forgot_password that compares the email only
identity_mismatch_email_only(u, email, phone) == email # u.email

identity_mismatch(u, email, phone) == email # u.email \/ phone # u.phone

forgot_password(email, phone, smtp) ==
    LET c == [op |-> "forgot_password", email |-> email, phone |-> phone]
        u == IF get_user_by_identifier(users, email) # NoUser
             THEN get_user_by_identifier(users, email)
             ELSE get_user_by_identifier(users, phone)
    IN IF u = NoUser
       THEN /\ Returns(c, [status |-> "error", message |-> "Account not found."])
            /\ UNCHANGED <<dbvars, now, nextToken, issued>>
       ELSE IF identity_mismatch(u, email, phone)
       THEN /\ Returns(c, [status |-> "error", message |-> "Email/phone mismatch."])
            /\ UNCHANGED <<dbvars, now, nextToken, issued>>
       ELSE /\ password_resets' = create_reset_token(password_resets, email, nextToken, now)
            /\ nextToken' = nextToken + 1
            /\ issued' = Issue("reset", email)
            /\ IF smtp = "smtp_error"
               THEN Returns(c, Raised("SMTPException"))
               ELSE Returns(c, [status |-> "success", message |-> "Reset token sent."])
            /\ UNCHANGED <<users, verify_tokens, plans, subscriptions, usage, now>>

reset_password(email, reset_token, new_password, salt) ==
    LET c == [op |-> "reset_password", email |-> email, reset_token |-> reset_token,
              new_password |-> new_password]
    IN /\ password_resets' = consume_reset_token_rows(password_resets, email, reset_token)
       /\ IF ~consume_reset_token_ok(password_resets, email, reset_token, now)
          THEN /\ Returns(c, [status |-> "error",
                              message |-> "Invalid or expired reset token."])
               /\ UNCHANGED <<users, issued>>
          ELSE /\ users' = set_new_password(users, email, new_password, salt)
               /\ issued' = Consume(reset_token)
               /\ Returns(c, [status |-> "success",
                              message |-> "Password reset successful."])
       /\ UNCHANGED <<verify_tokens, plans, subscriptions, usage, now, nextToken>>

get_user_subscription(user_id) ==
    /\ subscriptions' = get_subscription_rows(plans, subscriptions, user_id)
    /\ Returns([op |-> "get_user_subscription", user_id |-> user_id],
               [subscription |-> get_subscription(plans, subscriptions, user_id)])
    /\ UNCHANGED <<users, verify_tokens, password_resets, plans, usage, now, nextToken, issued>>

upgrade_plan(user_id, new_plan_id) ==
    LET c == [op |-> "upgrade_plan", user_id |-> user_id, new_plan_id |-> new_plan_id]
    IN IF ~HasPlan(plans, new_plan_id)
       THEN /\ Returns(c, Raised("ValueError"))
            /\ UNCHANGED <<dbvars, now, nextToken, issued>>
       ELSE /\ subscriptions' = set_subscription_rows(plans, subscriptions, user_id, new_plan_id)
            /\ Returns(c, [status |-> "success", message |-> "Plan upgraded.",
                           subscription |-> set_subscription(plans, subscriptions,
                                                             user_id, new_plan_id)])
            /\ UNCHANGED <<users, verify_tokens, password_resets, plans, usage,
                           now, nextToken, issued>>

list_all_plans ==
    /\ Returns([op |-> "list_all_plans"], [plans |-> list_plans(plans)])
    /\ UNCHANGED <<dbvars, now, nextToken, issued>>

use_feature(user_id, feature) ==
    /\ usage' = record_activity(usage, user_id, feature, now)
    /\ Returns([op |-> "use_feature", user_id |-> user_id, feature |-> feature],
               [status |-> "success", message |-> "Feature recorded."])
    /\ UNCHANGED <<users, verify_tokens, password_resets, plans, subscriptions,
                   now, nextToken, issued>>

get_user_usage(user_id) ==
    /\ Returns([op |-> "get_user_usage", user_id |-> user_id],
               [usage |-> get_usage(usage, user_id, now)])
    /\ UNCHANGED <<dbvars, now, nextToken, issued>>

\* time passes between calls
Tick ==
    /\ call = Idle
    /\ now' = now + TickMinutes
    /\ UNCHANGED <<dbvars, nextToken, call, ret, pre, issued>>

----------------------------------------------------------------------------
(* bootstrap_databases has run: indexes exist, the plans are seeded *)

Init ==
    /\ users = <<>>
    /\ verify_tokens = {}
    /\ password_resets = {}
    /\ plans = init_subs_db({})
    /\ subscriptions = {}
    /\ usage = {}
    /\ now = 0
    /\ nextToken = 1
    /\ call = Idle
    /\ ret = NoReturn
    /\ pre = NoSnapshot
    /\ issued = <<>>
    /\ run = NoRun
    /\ threads = [th \in Threads |-> ThreadIdle]
    /\ flow = NoFlow

----------------------------------------------------------------------------
(* Specifications.  The guards below only keep the model finite: the token *)
(* counter, the clock and the usage counters stop at their bounds.         *)

TokensLeft == nextToken <= MaxTokens

FewTokensLeft == nextToken < MaxTokens

TimeLeft == now + TickMinutes <= MaxTime

UsageBelow(user_id, bound) == get_usage(usage, user_id, now).current_usage < bound

\* Spec: every operation; one identity can register
Next ==
    \/ \E n \in Names, e \in SoleEmail, p \in SolePhone, pw \in SolePassword,
          pl \in PlanInputs, s \in SoleSalt, m \in SmtpOutcomes :
            /\ FewTokensLeft
            /\ register_user(n, e, p, pw, pl, s, m)
            /\ UNCHANGED <<run, threads, flow>>
    \/ \E e \in Emails, t \in TokenStrings : verify_account(e, t) /\ UNCHANGED <<run, threads, flow>>
    \/ \E i \in Identifiers, pw \in Passwords :
            /\ UsageBelow(get_user_by_identifier(users, i)._id, MaxUsage)
            /\ login_user(i, pw)
            /\ UNCHANGED <<run, threads, flow>>
    \/ \E e \in Emails, p \in Phones, m \in SmtpOutcomes :
            /\ FewTokensLeft
            /\ forgot_password(e, p, m)
            /\ UNCHANGED <<run, threads, flow>>
    \/ \E e \in Emails, t \in TokenStrings, pw \in Passwords, s \in SoleSalt :
            reset_password(e, t, pw, s) /\ UNCHANGED <<run, threads, flow>>
    \/ \E uid \in UserIdInputs : get_user_subscription(uid) /\ UNCHANGED <<run, threads, flow>>
    \/ \E uid \in SoleUserId, pl \in PlanInputs : upgrade_plan(uid, pl) /\ UNCHANGED <<run, threads, flow>>
    \/ list_all_plans /\ UNCHANGED <<run, threads, flow>>
    \/ \E uid \in SoleUserId, f \in Features :
            /\ UsageBelow(uid, MaxUsage)
            /\ use_feature(uid, f)
            /\ UNCHANGED <<run, threads, flow>>
    \/ \E uid \in UserIdInputs : get_user_usage(uid) /\ UNCHANGED <<run, threads, flow>>
    \/ TimeLeft /\ Tick /\ UNCHANGED <<run, threads, flow>>
    \/ Respond /\ UNCHANGED <<run, threads, flow>>

Spec == Init /\ [][Next]_vars

\* SpecAuth: registration, verification and recovery of two identities
NextAuth ==
    \/ \E n \in Names, e \in Emails, p \in Phones, pw \in SolePassword, s \in SoleSalt :
            /\ TokensLeft
            /\ register_user(n, e, p, pw, "free", s, "sent")
            /\ UNCHANGED <<run, threads, flow>>
    \/ \E e \in Emails, t \in TokenStrings : verify_account(e, t) /\ UNCHANGED <<run, threads, flow>>
    \/ \E e \in Emails, p \in Phones :
            /\ TokensLeft
            /\ forgot_password(e, p, "sent")
            /\ UNCHANGED <<run, threads, flow>>
    \/ \E e \in Emails, t \in TokenStrings, pw \in Passwords, s \in Salts :
            reset_password(e, t, pw, s) /\ UNCHANGED <<run, threads, flow>>
    \/ TimeLeft /\ Tick /\ UNCHANGED <<run, threads, flow>>
    \/ Respond /\ UNCHANGED <<run, threads, flow>>

SpecAuth == Init /\ [][NextAuth]_vars

\* SpecQuota: logins and feature use of one identity, up to the basic plan's
\* limit and beyond.  run counts the login_user calls made with the correct
\* password once the account is verified (k), those that succeeded (ok), the
\* usage limits those calls found, and whether a feature was used.
CountsAsLogin(i, pw) ==
    LET u == get_user_by_identifier(users, i)
    IN /\ u # NoUser
       /\ verify_password(pw, u.password_salt, u.password_hash)
       /\ u.verified

ObserveLogin(i, pw) ==
    IF CountsAsLogin(i, pw)
    THEN run' = [run EXCEPT
                   !.k = @ + 1,
                   !.ok = IF ret'.status = "success" THEN @ + 1 ELSE @,
                   !.limits = @ \cup {get_subscription(plans, subscriptions,
                                  get_user_by_identifier(users, i)._id).usage_limit}]
    ELSE UNCHANGED run

NextQuota ==
    \/ \E n \in Names, e \in SoleEmail, p \in SolePhone, pw \in SolePassword,
          pl \in QuotaPlanInputs, s \in SoleSalt :
            /\ TokensLeft
            /\ register_user(n, e, p, pw, pl, s, "sent")
            /\ UNCHANGED <<run, threads, flow>>
    \/ \E e \in SoleEmail, t \in TokenStrings : verify_account(e, t) /\ UNCHANGED <<run, threads, flow>>
    \/ \E i \in SoleEmail \cup SolePhone, pw \in Passwords :
            /\ run.k < MaxLogins
            /\ UsageBelow(get_user_by_identifier(users, i)._id, QuotaMaxUsage)
            /\ login_user(i, pw)
            /\ ObserveLogin(i, pw)
            /\ UNCHANGED <<threads, flow>>
    \/ \E uid \in SoleUserId, pl \in QuotaPlanInputs : upgrade_plan(uid, pl) /\ UNCHANGED <<run, threads, flow>>
    \/ \E uid \in SoleUserId, f \in Features :
            /\ UsageBelow(uid, QuotaMaxUsage)
            /\ use_feature(uid, f)
            /\ run' = [run EXCEPT !.feature_used = TRUE, !.features = @ + 1]
            /\ UNCHANGED <<threads, flow>>
    \/ Respond /\ UNCHANGED <<run, threads, flow>>

SpecQuota == Init /\ [][NextQuota]_vars

----------------------------------------------------------------------------
(* SpecRegister: registrations of two identities with unknown plans and    *)
(* failing dispatch, and the calls that follow them.  run.smtp is what     *)
(* _send_email met in the last call that dispatched; run.failed holds the  *)
(* arguments of the register_user calls that raised after they had created *)
(* the account.                                                            *)

RegisterPlanInputs == {"free", "gold", ""}

UpgradePlanInputs == {"basic", "gold"}

RegisterArgs(full_name, email, phone, password) ==
    [full_name |-> full_name, email |-> email, phone |-> phone, password |-> password]

ObserveRegister(full_name, email, phone, password, smtp) ==
    run' = [run EXCEPT
              !.smtp = smtp,
              !.failed = IF ret'.status = "raised" /\ users' # users
                         THEN @ \cup {RegisterArgs(full_name, email, phone, password)}
                         ELSE @]

NextRegister ==
    \/ \E n \in Names, e \in Emails, p \in Phones, pw \in SolePassword,
          pl \in RegisterPlanInputs, s \in SoleSalt, m \in SmtpOutcomes :
            /\ TokensLeft
            /\ register_user(n, e, p, pw, pl, s, m)
            /\ ObserveRegister(n, e, p, pw, m)
            /\ UNCHANGED <<threads, flow>>
    \/ \E e \in Emails, t \in TokenStrings : verify_account(e, t) /\ UNCHANGED <<run, threads, flow>>
    \/ \E i \in SoleEmail, pw \in Passwords :
            /\ UsageBelow(get_user_by_identifier(users, i)._id, MaxUsage)
            /\ login_user(i, pw)
            /\ UNCHANGED <<run, threads, flow>>
    \/ \E e \in Emails, p \in Phones, m \in SmtpOutcomes :
            /\ TokensLeft
            /\ forgot_password(e, p, m)
            /\ run' = [run EXCEPT !.smtp = m]
            /\ UNCHANGED <<threads, flow>>
    \/ \E e \in Emails, t \in TokenStrings, pw \in SolePassword, s \in SoleSalt :
            reset_password(e, t, pw, s) /\ UNCHANGED <<run, threads, flow>>
    \/ \E uid \in SoleUserId, pl \in UpgradePlanInputs :
            upgrade_plan(uid, pl) /\ UNCHANGED <<run, threads, flow>>
    \/ Respond /\ UNCHANGED <<run, threads, flow>>

SpecRegister == Init /\ [][NextRegister]_vars

----------------------------------------------------------------------------
(* SpecCatalog: subscriptions of one identity while plans are retired.     *)
(* The code never deletes a plan; plan_retired is the operator removing a  *)
(* paid plan's document from db.plans, the case get_subscription's         *)
(* fallback provides for.                                                  *)

RetirablePlans == {"basic", "pro"}

plan_retired(pid) ==
    /\ call = Idle
    /\ HasPlan(plans, pid)
    /\ plans' = {pl \in plans : pl.plan_id # pid}
    /\ UNCHANGED <<users, verify_tokens, password_resets, subscriptions, usage,
                   now, nextToken, call, ret, pre, issued>>

NextCatalog ==
    \/ \E n \in Names, e \in SoleEmail, p \in SolePhone, pw \in SolePassword,
          pl \in QuotaPlanInputs, s \in SoleSalt :
            /\ TokensLeft
            /\ register_user(n, e, p, pw, pl, s, "sent")
            /\ UNCHANGED <<run, threads, flow>>
    \/ \E e \in SoleEmail, t \in TokenStrings : verify_account(e, t) /\ UNCHANGED <<run, threads, flow>>
    \/ \E i \in SoleEmail, pw \in SolePassword :
            /\ UsageBelow(get_user_by_identifier(users, i)._id, MaxUsage)
            /\ login_user(i, pw)
            /\ UNCHANGED <<run, threads, flow>>
    \/ \E uid \in UserIdInputs : get_user_subscription(uid) /\ UNCHANGED <<run, threads, flow>>
    \/ \E uid \in UserIdInputs, pl \in QuotaPlanInputs :
            upgrade_plan(uid, pl) /\ UNCHANGED <<run, threads, flow>>
    \/ \E pid \in RetirablePlans : plan_retired(pid) /\ UNCHANGED <<run, threads, flow>>
    \/ Respond /\ UNCHANGED <<run, threads, flow>>

SpecCatalog == Init /\ [][NextCatalog]_vars

----------------------------------------------------------------------------
(* SpecActivity: one account uses a feature again and again on one day, a  *)
(* minute apart, and reads its usage.  run.acts is the list of the         *)
(* activities recorded so far, oldest first.                               *)

\* a minute passes after each recorded activity
MinutePasses ==
    /\ call = Idle
    /\ now < Len(run.acts)
    /\ now' = now + 1
    /\ UNCHANGED <<dbvars, nextToken, call, ret, pre, issued>>

NextActivity ==
    \/ \E uid \in SoleUserId, f \in Features :
            /\ Len(run.acts) < MaxActivities
            /\ now = Len(run.acts)
            /\ use_feature(uid, f)
            /\ run' = [run EXCEPT !.acts = Append(@, [feature |-> f, timestamp |-> now])]
            /\ UNCHANGED <<threads, flow>>
    \/ \E uid \in SoleUserId : get_user_usage(uid) /\ UNCHANGED <<run, threads, flow>>
    \/ MinutePasses /\ UNCHANGED <<run, threads, flow>>
    \/ Respond /\ UNCHANGED <<run, threads, flow>>

SpecActivity == Init /\ [][NextActivity]_vars

----------------------------------------------------------------------------
(* SpecDays: logins, feature uses, upgrades and reads of one identity over *)
(* consecutive UTC days.                                                   *)

DayPlanInputs == {"free", "pro"}

\* the UTC date advances between calls
DayPasses ==
    /\ call = Idle
    /\ today(now) < MaxDay
    /\ now' = now + MINUTES_PER_DAY
    /\ UNCHANGED <<dbvars, nextToken, call, ret, pre, issued>>

NextDays ==
    \/ \E n \in Names, e \in SoleEmail, p \in SolePhone, pw \in SolePassword,
          pl \in DayPlanInputs, s \in SoleSalt :
            /\ TokensLeft
            /\ register_user(n, e, p, pw, pl, s, "sent")
            /\ UNCHANGED <<run, threads, flow>>
    \/ \E e \in SoleEmail, t \in TokenStrings : verify_account(e, t) /\ UNCHANGED <<run, threads, flow>>
    \/ \E i \in SoleEmail, pw \in SolePassword :
            /\ UsageBelow(get_user_by_identifier(users, i)._id, MaxUsage)
            /\ login_user(i, pw)
            /\ UNCHANGED <<run, threads, flow>>
    \/ \E uid \in SoleUserId, pl \in DayPlanInputs :
            upgrade_plan(uid, pl) /\ UNCHANGED <<run, threads, flow>>
    \/ \E uid \in SoleUserId, f \in Features :
            /\ UsageBelow(uid, MaxUsage)
            /\ use_feature(uid, f)
            /\ UNCHANGED <<run, threads, flow>>
    \/ \E uid \in UserIdInputs : get_user_usage(uid) /\ UNCHANGED <<run, threads, flow>>
    \/ DayPasses /\ UNCHANGED <<run, threads, flow>>
    \/ Respond /\ UNCHANGED <<run, threads, flow>>

SpecDays == Init /\ [][NextDays]_vars

----------------------------------------------------------------------------
(* SpecUpgrade: logins and upgrades of one identity on one day.            *)
(* run.refused tells that a login was refused for quota, run.upgraded that *)
(* an upgrade succeeded since that refusal, and run.before what the two    *)
(* were when the last login was made.                                      *)

ObserveRefusal ==
    run' = [run EXCEPT
              !.before = <<run.refused, run.upgraded>>,
              !.refused = @ \/ ret' = [status |-> "error",
                                       message |-> "Daily login limit reached."],
              !.upgraded = IF ret'.status = "error" /\ ret'.message = "Daily login limit reached."
                           THEN FALSE ELSE @]

ObserveUpgrade ==
    run' = [run EXCEPT !.upgraded = @ \/ (run.refused /\ ret'.status = "success")]

NextUpgrade ==
    \/ \E n \in Names, e \in SoleEmail, p \in SolePhone, pw \in SolePassword,
          pl \in DayPlanInputs, s \in SoleSalt :
            /\ TokensLeft
            /\ register_user(n, e, p, pw, pl, s, "sent")
            /\ UNCHANGED <<run, threads, flow>>
    \/ \E e \in SoleEmail, t \in TokenStrings : verify_account(e, t) /\ UNCHANGED <<run, threads, flow>>
    \/ \E i \in SoleEmail, pw \in Passwords :
            /\ UsageBelow(get_user_by_identifier(users, i)._id, MaxUsage)
            /\ login_user(i, pw)
            /\ ObserveRefusal
            /\ UNCHANGED <<threads, flow>>
    \/ \E uid \in UserIdInputs : get_user_subscription(uid) /\ UNCHANGED <<run, threads, flow>>
    \/ \E uid \in SoleUserId, pl \in PlanInputs :
            /\ upgrade_plan(uid, pl)
            /\ ObserveUpgrade
            /\ UNCHANGED <<threads, flow>>
    \/ \E uid \in SoleUserId, f \in Features :
            /\ UsageBelow(uid, MaxUsage)
            /\ use_feature(uid, f)
            /\ UNCHANGED <<run, threads, flow>>
    \/ Respond /\ UNCHANGED <<run, threads, flow>>

SpecUpgrade == Init /\ [][NextUpgrade]_vars

----------------------------------------------------------------------------
(* SpecSeed: the databases start empty and bootstrap_databases runs, at    *)
(* every start of the API process, before and between the calls the routes *)
(* serve (app.py runs it at import, ahead of every route).                 *)

InitUnseeded ==
    /\ users = <<>>
    /\ verify_tokens = {}
    /\ password_resets = {}
    /\ plans = {}
    /\ subscriptions = {}
    /\ usage = {}
    /\ now = 0
    /\ nextToken = 1
    /\ call = Idle
    /\ ret = NoReturn
    /\ pre = NoSnapshot
    /\ issued = <<>>
    /\ run = NoRun
    /\ threads = [th \in Threads |-> ThreadIdle]
    /\ flow = NoFlow

\* create_index is idempotent; init_subs_db seeds the plans if there are none
bootstrap_databases ==
    /\ plans' = init_subs_db(plans)
    /\ Returns([op |-> "bootstrap_databases"], [status |-> "done"])
    /\ UNCHANGED <<users, verify_tokens, password_resets, subscriptions, usage,
                   now, nextToken, issued>>

\* the first bootstrap_databases has run
Bootstrapped == plans # {}

NextSeed ==
    \/ bootstrap_databases /\ UNCHANGED <<run, threads, flow>>
    \/ \E n \in Names, e \in SoleEmail, p \in SolePhone, pw \in SolePassword,
          pl \in QuotaPlanInputs, s \in SoleSalt :
            /\ Bootstrapped
            /\ TokensLeft
            /\ register_user(n, e, p, pw, pl, s, "sent")
            /\ UNCHANGED <<run, threads, flow>>
    \/ \E uid \in UserIdInputs :
            Bootstrapped /\ get_user_subscription(uid) /\ UNCHANGED <<run, threads, flow>>
    \/ \E uid \in UserIdInputs, pl \in PlanInputs :
            Bootstrapped /\ upgrade_plan(uid, pl) /\ UNCHANGED <<run, threads, flow>>
    \/ Bootstrapped /\ list_all_plans /\ UNCHANGED <<run, threads, flow>>
    \/ Respond /\ UNCHANGED <<run, threads, flow>>

SpecSeed == InitUnseeded /\ [][NextSeed]_vars

----------------------------------------------------------------------------
(* SpecConc: register_user requests served concurrently, one database      *)
(* operation per step.  threads[th] holds the request's position (pc) and  *)
(* its local variables.                                                    *)

UsersLeft == Len(users) < MaxTokens

ConcPlanInputs == {"free", "gold"}

\* create_user: insert_one is one storage operation, checked against the
\* unique indexes as it inserts
register_create_user(th, full_name, email, phone, password, plan_id, salt) ==
    LET doc == create_user_doc(users, full_name, email, phone, password, salt)
        u == create_user(doc)
    IN /\ threads[th] = ThreadIdle
       /\ IF ~UniqueIndexAllows(users, email, phone)
          THEN /\ threads' = [threads EXCEPT ![th] =
                       [pc |-> "raised", type |-> "DuplicateKeyError",
                        email |-> email, phone |-> phone]]
               /\ UNCHANGED users
          ELSE /\ users' = Append(users, doc)
               /\ threads' = [threads EXCEPT ![th] =
                       [pc |-> "delete_many", email |-> email, phone |-> phone,
                        user_id |-> u.id, plan_id |-> plan_id]]
       /\ UNCHANGED <<verify_tokens, password_resets, plans, subscriptions, usage,
                      now, nextToken, call, ret, pre, issued, run, flow>>

\* create_verify_token: the token and its expiry are drawn, then delete_many
register_delete_many(th) ==
    /\ threads[th].pc = "delete_many"
    /\ verify_tokens' = {r \in verify_tokens : r.email # threads[th].email}
    /\ nextToken' = nextToken + 1
    /\ issued' = Issue("verify", threads[th].email)
    /\ threads' = [threads EXCEPT ![th] =
            [pc |-> "insert_one", email |-> @.email, phone |-> @.phone,
             user_id |-> @.user_id, plan_id |-> @.plan_id,
             token |-> nextToken, expires_at |-> now + TTL_MIN]]
    /\ UNCHANGED <<users, password_resets, plans, subscriptions, usage,
                   now, call, ret, pre, run, flow>>

\* create_verify_token: insert_one
register_insert_one(th) ==
    /\ threads[th].pc = "insert_one"
    /\ verify_tokens' = verify_tokens \cup
            {[email |-> threads[th].email, token |-> threads[th].token,
              expires_at |-> threads[th].expires_at]}
    /\ threads' = [threads EXCEPT ![th] =
            [pc |-> "set_subscription", email |-> @.email, phone |-> @.phone,
             user_id |-> @.user_id, plan_id |-> @.plan_id]]
    /\ UNCHANGED <<users, password_resets, plans, subscriptions, usage,
                   now, nextToken, call, ret, pre, issued, run, flow>>

\* _send_email, then set_subscription for the user id only this request
\* knows; db.plans never changes, so its reads and its upsert act as one
register_set_subscription(th, smtp) ==
    LET pid == IF threads[th].plan_id = "" THEN "free" ELSE threads[th].plan_id
    IN /\ threads[th].pc = "set_subscription"
       /\ IF smtp = "smtp_error"
          THEN /\ threads' = [threads EXCEPT ![th] =
                       [pc |-> "raised", type |-> "SMTPException",
                        email |-> @.email, phone |-> @.phone]]
               /\ UNCHANGED subscriptions
          ELSE IF ~HasPlan(plans, pid)
          THEN /\ threads' = [threads EXCEPT ![th] =
                       [pc |-> "raised", type |-> "ValueError",
                        email |-> @.email, phone |-> @.phone]]
               /\ UNCHANGED subscriptions
          ELSE /\ subscriptions' = set_subscription_rows(plans, subscriptions,
                                                         threads[th].user_id, pid)
               /\ threads' = [threads EXCEPT ![th] =
                       [pc |-> "returned", email |-> @.email, phone |-> @.phone,
                        user_id |-> @.user_id]]
       /\ UNCHANGED <<users, verify_tokens, password_resets, plans, usage,
                      now, nextToken, call, ret, pre, issued, run, flow>>

\* the request is answered (or its exception reported) and the thread is free
thread_return(th) ==
    /\ threads[th].pc \in {"returned", "raised"}
    /\ threads' = [threads EXCEPT ![th] = ThreadIdle]
    /\ UNCHANGED <<dbvars, now, nextToken, call, ret, pre, issued, run, flow>>

NextConc ==
    \/ \E th \in Threads, n \in Names, e \in Emails, p \in Phones, pw \in SolePassword,
          pl \in ConcPlanInputs, s \in SoleSalt :
            UsersLeft /\ register_create_user(th, n, e, p, pw, pl, s)
    \/ \E th \in Threads : register_delete_many(th)
    \/ \E th \in Threads : register_insert_one(th)
    \/ \E th \in Threads, m \in SmtpOutcomes : register_set_subscription(th, m)
    \/ \E th \in Threads : thread_return(th)

SpecConc == Init /\ [][NextConc]_vars

----------------------------------------------------------------------------
(* SpecConsume: verify_account and reset_password requests served          *)
(* concurrently, one database operation per step, for tokens that          *)
(* register_user and forgot_password issued.                               *)

\* consume_verify_token: find_one, then the expiry test
verify_find_one(th, email, token) ==
    /\ threads[th] = ThreadIdle
    /\ threads' = [threads EXCEPT ![th] =
            IF ~\E rec \in verify_tokens : rec.email = email /\ rec.token = token
            THEN [pc |-> "returned", op |-> "verify_account", email |-> email,
                  token |-> token, status |-> "error"]
            ELSE [pc |-> "verify_delete_many", op |-> "verify_account",
                  email |-> email, token |-> token,
                  ok |-> consume_verify_token_ok(verify_tokens, email, token, now)]]
    /\ UNCHANGED <<dbvars, now, nextToken, call, ret, pre, issued, run, flow>>

\* consume_verify_token: delete_many, in either branch
verify_delete_many(th) ==
    /\ threads[th].pc = "verify_delete_many"
    /\ verify_tokens' = {r \in verify_tokens : r.email # threads[th].email}
    /\ threads' = [threads EXCEPT ![th] =
            IF ~threads[th].ok
            THEN [pc |-> "returned", op |-> @.op, email |-> @.email,
                  token |-> @.token, status |-> "error"]
            ELSE [pc |-> "set_verified", op |-> @.op, email |-> @.email,
                  token |-> @.token]]
    /\ UNCHANGED <<users, password_resets, plans, subscriptions, usage,
                   now, nextToken, call, ret, pre, issued, run, flow>>

\* verify_account: set_verified and the success result
verify_set_verified(th) ==
    /\ threads[th].pc = "set_verified"
    /\ users' = set_verified(users, threads[th].email)
    /\ issued' = Consume(threads[th].token)
    /\ threads' = [threads EXCEPT ![th] =
            [pc |-> "returned", op |-> @.op, email |-> @.email,
             token |-> @.token, status |-> "success"]]
    /\ UNCHANGED <<verify_tokens, password_resets, plans, subscriptions, usage,
                   now, nextToken, call, ret, pre, run, flow>>

\* consume_reset_token: find_one, then the expiry test
reset_find_one(th, email, token, new_password) ==
    /\ threads[th] = ThreadIdle
    /\ threads' = [threads EXCEPT ![th] =
            IF ~\E rec \in password_resets : rec.email = email /\ rec.token = token
            THEN [pc |-> "returned", op |-> "reset_password", email |-> email,
                  token |-> token, status |-> "error"]
            ELSE [pc |-> "reset_delete_many", op |-> "reset_password",
                  email |-> email, token |-> token, new_password |-> new_password,
                  ok |-> consume_reset_token_ok(password_resets, email, token, now)]]
    /\ UNCHANGED <<dbvars, now, nextToken, call, ret, pre, issued, run, flow>>

\* consume_reset_token: delete_many, in either branch
reset_delete_many(th) ==
    /\ threads[th].pc = "reset_delete_many"
    /\ password_resets' = {r \in password_resets : r.email # threads[th].email}
    /\ threads' = [threads EXCEPT ![th] =
            IF ~threads[th].ok
            THEN [pc |-> "returned", op |-> @.op, email |-> @.email,
                  token |-> @.token, status |-> "error"]
            ELSE [pc |-> "set_new_password", op |-> @.op, email |-> @.email,
                  token |-> @.token, new_password |-> @.new_password]]
    /\ UNCHANGED <<users, verify_tokens, plans, subscriptions, usage,
                   now, nextToken, call, ret, pre, issued, run, flow>>

\* reset_password: set_new_password and the success result
reset_set_new_password(th, salt) ==
    /\ threads[th].pc = "set_new_password"
    /\ users' = set_new_password(users, threads[th].email, threads[th].new_password, salt)
    /\ issued' = Consume(threads[th].token)
    /\ threads' = [threads EXCEPT ![th] =
            [pc |-> "returned", op |-> @.op, email |-> @.email,
             token |-> @.token, status |-> "success"]]
    /\ UNCHANGED <<verify_tokens, password_resets, plans, subscriptions, usage,
                   now, nextToken, call, ret, pre, run, flow>>

NextConsume ==
    \/ \E n \in Names, e \in SoleEmail, p \in SolePhone, pw \in SolePassword, s \in SoleSalt :
            /\ TokensLeft
            /\ register_user(n, e, p, pw, "free", s, "sent")
            /\ UNCHANGED <<run, threads, flow>>
    \/ \E e \in SoleEmail, p \in SolePhone :
            /\ TokensLeft
            /\ forgot_password(e, p, "sent")
            /\ UNCHANGED <<run, threads, flow>>
    \/ Respond /\ UNCHANGED <<run, threads, flow>>
    \/ \E th \in Threads, e \in SoleEmail, t \in TokenStrings : verify_find_one(th, e, t)
    \/ \E th \in Threads : verify_delete_many(th)
    \/ \E th \in Threads : verify_set_verified(th)
    \/ \E th \in Threads, e \in SoleEmail, t \in TokenStrings, pw \in Passwords :
            reset_find_one(th, e, t, pw)
    \/ \E th \in Threads : reset_delete_many(th)
    \/ \E th \in Threads, s \in SoleSalt : reset_set_new_password(th, s)
    \/ \E th \in Threads : thread_return(th)

SpecConsume == Init /\ [][NextConsume]_vars

----------------------------------------------------------------------------
(* SpecIssue: forgot_password requests served concurrently, one database   *)
(* operation per step, for the account register_user created.              *)

\* forgot_password: the account is looked up and compared (reads only)
forgot_lookup(th, email, phone) ==
    LET u == IF get_user_by_identifier(users, email) # NoUser
             THEN get_user_by_identifier(users, email)
             ELSE get_user_by_identifier(users, phone)
    IN /\ threads[th] = ThreadIdle
       /\ threads' = [threads EXCEPT ![th] =
               IF u = NoUser
               THEN [pc |-> "returned", op |-> "forgot_password", email |-> email,
                     status |-> "error", message |-> "Account not found."]
               ELSE IF identity_mismatch(u, email, phone)
               THEN [pc |-> "returned", op |-> "forgot_password", email |-> email,
                     status |-> "error", message |-> "Email/phone mismatch."]
               ELSE [pc |-> "issue_delete_many", op |-> "forgot_password",
                     email |-> email]]
       /\ UNCHANGED <<dbvars, now, nextToken, call, ret, pre, issued, run, flow>>

\* create_reset_token: the token and its expiry are drawn, then delete_many
forgot_delete_many(th) ==
    /\ threads[th].pc = "issue_delete_many"
    /\ password_resets' = {r \in password_resets : r.email # threads[th].email}
    /\ nextToken' = nextToken + 1
    /\ issued' = Issue("reset", threads[th].email)
    /\ threads' = [threads EXCEPT ![th] =
            [pc |-> "issue_insert_one", op |-> @.op, email |-> @.email,
             token |-> nextToken, expires_at |-> now + TTL_MIN]]
    /\ UNCHANGED <<users, verify_tokens, plans, subscriptions, usage,
                   now, call, ret, pre, run, flow>>

\* create_reset_token: insert_one
forgot_insert_one(th) ==
    /\ threads[th].pc = "issue_insert_one"
    /\ password_resets' = password_resets \cup
            {[email |-> threads[th].email, token |-> threads[th].token,
              expires_at |-> threads[th].expires_at]}
    /\ threads' = [threads EXCEPT ![th] =
            [pc |-> "send_email", op |-> @.op, email |-> @.email, token |-> @.token]]
    /\ UNCHANGED <<users, verify_tokens, plans, subscriptions, usage,
                   now, nextToken, call, ret, pre, issued, run, flow>>

\* forgot_password: _send_email and the success result
forgot_send_email(th, smtp) ==
    /\ threads[th].pc = "send_email"
    /\ threads' = [threads EXCEPT ![th] =
            IF smtp = "smtp_error"
            THEN [pc |-> "raised", type |-> "SMTPException", email |-> @.email]
            ELSE [pc |-> "returned", op |-> @.op, email |-> @.email,
                  status |-> "success", message |-> "Reset token sent."]]
    /\ UNCHANGED <<dbvars, now, nextToken, call, ret, pre, issued, run, flow>>

NextIssue ==
    \/ \E n \in Names, e \in Emails, p \in SolePhone, pw \in SolePassword, s \in SoleSalt :
            /\ FewTokensLeft
            /\ register_user(n, e, p, pw, "free", s, "sent")
            /\ UNCHANGED <<run, threads, flow>>
    \/ Respond /\ UNCHANGED <<run, threads, flow>>
    \/ \E th \in Threads, e \in Emails, p \in Phones : forgot_lookup(th, e, p)
    \/ \E th \in Threads : TokensLeft /\ forgot_delete_many(th)
    \/ \E th \in Threads : forgot_insert_one(th)
    \/ \E th \in Threads, m \in SmtpOutcomes : forgot_send_email(th, m)
    \/ \E th \in Threads : thread_return(th)

SpecIssue == Init /\ [][NextIssue]_vars

----------------------------------------------------------------------------
(* SpecRecord: record_login and record_activity calls for one account and  *)
(* day served concurrently, one database operation per step.  run.k counts *)
(* the completed calls, run.acts holds the entries of the completed        *)
(* record_activity calls.                                                  *)

RecordFeatures == {"image", "report"}

\* the record_activity calls between their find_one and their update_one
UnderWay == {th \in Threads : threads[th].pc = "activity_update_one"}

RecordedLeft == run.k + Cardinality(UnderWay) < MaxRecorded

\* record_login: the one update_one ($inc, $setOnInsert, upsert)
login_update_one(th, user_id) ==
    /\ threads[th] = ThreadIdle
    /\ usage' = record_login(usage, user_id, now)
    /\ run' = [run EXCEPT !.k = @ + 1]
    /\ threads' = [threads EXCEPT ![th] =
            [pc |-> "returned", op |-> "record_login", user_id |-> user_id]]
    /\ UNCHANGED <<users, verify_tokens, password_resets, plans, subscriptions,
                   now, nextToken, call, ret, pre, issued, flow>>

\* record_activity: _today(), now, find_one, and the list built from what it read
activity_find_one(th, user_id, feature) ==
    LET acts == IF HasUsage(usage, user_id, now)
                THEN UsageDoc(usage, user_id, now).recent_activities ELSE <<>>
    IN /\ threads[th] = ThreadIdle
       /\ threads' = [threads EXCEPT ![th] =
               [pc |-> "activity_update_one", op |-> "record_activity",
                user_id |-> user_id, t |-> now,
                entry |-> [feature |-> feature, timestamp |-> now],
                acts |-> Head100(<<[feature |-> feature, timestamp |-> now]>> \o acts)]]
       /\ UNCHANGED <<dbvars, now, nextToken, call, ret, pre, issued, run, flow>>

\* record_activity: update_one ($set recent_activities, $inc current_usage, upsert)
activity_update_one(th) ==
    LET user_id == threads[th].user_id
        t == threads[th].t
    IN /\ threads[th].pc = "activity_update_one"
       /\ usage' =
            IF HasUsage(usage, user_id, t)
            THEN (usage \ {UsageDoc(usage, user_id, t)})
                    \cup {[UsageDoc(usage, user_id, t) EXCEPT
                              !.recent_activities = threads[th].acts,
                              !.current_usage = @ + 1]}
            ELSE usage \cup {[user_id |-> user_id, date |-> today(t),
                              current_usage |-> 1,
                              recent_activities |-> threads[th].acts]}
       /\ run' = [run EXCEPT !.k = @ + 1,
                             !.acts = <<threads[th].entry>> \o @]
       /\ threads' = [threads EXCEPT ![th] =
               [pc |-> "returned", op |-> "record_activity", user_id |-> user_id]]
       /\ UNCHANGED <<users, verify_tokens, password_resets, plans, subscriptions,
                      now, nextToken, call, ret, pre, issued, flow>>

NextRecord ==
    \/ \E th \in Threads, uid \in SoleUserId :
            RecordedLeft /\ login_update_one(th, uid)
    \/ \E th \in Threads, uid \in SoleUserId, f \in RecordFeatures :
            RecordedLeft /\ activity_find_one(th, uid, f)
    \/ \E th \in Threads : activity_update_one(th)
    \/ \E th \in Threads : thread_return(th)

SpecRecord == Init /\ [][NextRecord]_vars

----------------------------------------------------------------------------
(* SpecLogin: login_user requests for one account served concurrently, one *)
(* database operation per step.  run.ok counts the logins granted.         *)

\* login_user: the account is looked up and the password and flag tested (reads only)
login_find_user(th, identifier, password) ==
    LET u == get_user_by_identifier(users, identifier)
    IN /\ threads[th] = ThreadIdle
       /\ threads' = [threads EXCEPT ![th] =
               IF u = NoUser
               THEN [pc |-> "returned", op |-> "login_user", status |-> "error",
                     message |-> "User not found."]
               ELSE IF ~verify_password(password, u.password_salt, u.password_hash)
               THEN [pc |-> "returned", op |-> "login_user", status |-> "error",
                     message |-> "Invalid credentials."]
               ELSE IF ~is_verified(u)
               THEN [pc |-> "returned", op |-> "login_user",
                     status |-> "verification_required",
                     message |-> "Verification required. Check email for OTP."]
               ELSE [pc |-> "get_subscription", op |-> "login_user", u |-> u]]
       /\ UNCHANGED <<dbvars, now, nextToken, call, ret, pre, issued, run, flow>>

\* login_user: get_subscription
login_get_subscription(th) ==
    /\ threads[th].pc = "get_subscription"
    /\ subscriptions' = get_subscription_rows(plans, subscriptions, threads[th].u._id)
    /\ threads' = [threads EXCEPT ![th] =
            [pc |-> "get_usage", op |-> @.op, u |-> @.u,
             sub |-> get_subscription(plans, subscriptions, @.u._id)]]
    /\ UNCHANGED <<users, verify_tokens, password_resets, plans, usage,
                   now, nextToken, call, ret, pre, issued, run, flow>>

\* login_user: get_usage and the comparison with the limit
login_get_usage(th) ==
    LET usg == get_usage(usage, threads[th].u._id, now)
    IN /\ threads[th].pc = "get_usage"
       /\ threads' = [threads EXCEPT ![th] =
               IF quota_reached(usg, @.sub)
               THEN [pc |-> "returned", op |-> "login_user", status |-> "error",
                     message |-> "Daily login limit reached."]
               ELSE [pc |-> "record_login", op |-> @.op, u |-> @.u]]
       /\ UNCHANGED <<dbvars, now, nextToken, call, ret, pre, issued, run, flow>>

\* login_user: record_login and the success result
login_record_login(th) ==
    /\ threads[th].pc = "record_login"
    /\ usage' = record_login(usage, threads[th].u._id, now)
    /\ run' = [run EXCEPT !.ok = @ + 1]
    /\ threads' = [threads EXCEPT ![th] =
            [pc |-> "returned", op |-> "login_user", status |-> "success",
             message |-> "Login successful.", user |-> PublicUser(@.u)]]
    /\ UNCHANGED <<users, verify_tokens, password_resets, plans, subscriptions,
                   now, nextToken, call, ret, pre, issued, flow>>

NextLogin ==
    \/ \E n \in Names, e \in SoleEmail, p \in SolePhone, pw \in SolePassword, s \in SoleSalt :
            /\ TokensLeft
            /\ register_user(n, e, p, pw, "free", s, "sent")
            /\ UNCHANGED <<run, threads, flow>>
    \/ \E e \in SoleEmail, t \in TokenStrings :
            verify_account(e, t) /\ UNCHANGED <<run, threads, flow>>
    \/ Respond /\ UNCHANGED <<run, threads, flow>>
    \/ \E th \in Threads, i \in SoleEmail \cup SolePhone, pw \in Passwords :
            login_find_user(th, i, pw)
    \/ \E th \in Threads : login_get_subscription(th)
    \/ \E th \in Threads : login_get_usage(th)
    \/ \E th \in Threads : login_record_login(th)
    \/ \E th \in Threads : thread_return(th)

SpecLogin == Init /\ [][NextLogin]_vars

----------------------------------------------------------------------------
(* src/langgraph/lang_graph_flow.py.  The state of a workflow run is a     *)
(* dict, here a function from the keys present to their values.  The nodes *)
(* reach the API over HTTP: what the API answers (or the error dict _post  *)
(* and _get make of a transport failure) is an input of the node.          *)

None == "None"

EmptyDict == [k \in {} |-> None]

\* dict.get(k, default)
Get(x, k, default) == IF k \in DOMAIN x THEN x[k] ELSE default

\* bool(v) of a string or None
Truthy(v) == v # None /\ v # ""

\* StateGraph(dict): the graph library either folds what a node returned
\* into the state, key by key, or makes it the state (merge)
Fold(merge, x, out) ==
    IF merge
    THEN [k \in DOMAIN x \cup DOMAIN out |-> IF k \in DOMAIN out THEN out[k] ELSE x[k]]
    ELSE out

RegisterResponses ==
    {[status |-> "success", message |-> "Registration created, please verify with OTP.",
      user_id |-> "1"],
     [status |-> "error", message |-> "Internal Server Error"]}

VerifyResponses ==
    {[status |-> "success", message |-> "Account verified. Please login."],
     [status |-> "error", message |-> "Invalid or expired verification token."]}

LoginResponses ==
    {[status |-> "success", message |-> "Login successful.",
      user |-> [id |-> "1", name |-> "Ann", email |-> "ann@x.com",
                phone |-> "+1555"]],
     [status |-> "verification_required",
      message |-> "Verification required. Check email for OTP.",
      email |-> "ann@x.com"],
     [status |-> "error", message |-> "Invalid credentials."]}

ForgotResponses ==
    {[status |-> "success", message |-> "Reset token sent."],
     [status |-> "error", message |-> "Account not found."]}

SubscriptionResponses ==
    {[subscription |-> [plan_id |-> "free", name |-> "Free", usage_limit |-> 3]],
     [status |-> "error", message |-> "Connection refused"]}

sign_up(state, r) ==
    IF ~({"full_name", "email", "phone", "password"} \subseteq DOMAIN state)
    THEN [status |-> "failed", flag |-> "no"]
    ELSE IF Get(r, "status", None) = "success"
    THEN [status |-> "registered", flag |-> "yes", user_id |-> Get(r, "user_id", None)]
    ELSE [status |-> "failed", flag |-> "no", error |-> Get(r, "message", None)]

user_registration(state, r) ==
    IF Get(state, "flag", None) # "yes"
    THEN [registration_status |-> "skipped", flag |-> "no"]
    ELSE IF ~({"email", "otp_code"} \subseteq DOMAIN state)
    THEN [registration_status |-> "failed", flag |-> "no"]
    ELSE LET ok == Get(r, "status", None) = "success"
         IN [registration_status |-> IF ok THEN "verified" ELSE "failed",
             flag |-> IF ok THEN "yes" ELSE "no"]

sign_in(state, r) ==
    IF ~({"email_or_phone", "password"} \subseteq DOMAIN state)
    THEN [login_status |-> "failed", flag |-> "no"]
    ELSE IF Get(r, "status", None) = "success"
    THEN [login_status |-> "success", flag |-> "yes", user |-> r.user]
    ELSE IF Get(r, "status", None) = "verification_required"
    THEN [login_status |-> "verification_required", flag |-> "no",
          email |-> Get(r, "email", None)]
    ELSE [login_status |-> "failed", flag |-> "no", error |-> Get(r, "message", None)]

\* the node forgot_password
flow_forgot_password(state, r) ==
    IF ~({"email", "phone"} \subseteq DOMAIN state)
    THEN [password_reset |-> "failed", flag |-> "no"]
    ELSE LET ok == Get(r, "status", None) = "success"
         IN [password_reset |-> IF ok THEN "sent" ELSE "failed",
             flag |-> IF ok THEN "yes" ELSE "no"]

user_login_validation(state) ==
    IF Get(state, "login_status", None) = "success"
    THEN [session |-> "active", flag |-> "yes"]
    ELSE [session |-> "inactive", flag |-> "no"]

\* state.get("user", {}).get("id") or state.get("user_id")
UidOf(state) ==
    LET id == Get(Get(state, "user", EmptyDict), "id", None)
    IN IF Truthy(id) THEN id ELSE Get(state, "user_id", None)

subscription_validation(state, r) ==
    IF Get(state, "flag", None) # "yes"
    THEN [subscription |-> "unknown", flag |-> "no"]
    ELSE LET sub == Get(r, "subscription", EmptyDict)
         IN [subscription |-> IF Truthy(Get(sub, "plan_id", None)) THEN "active" ELSE "none",
             flag |-> "yes", sub_detail |-> sub, user_id |-> UidOf(state)]

subscription_plan(state) ==
    IF Get(state, "flag", None) # "yes"
    THEN [subscription_status |-> "not_subscribed", flag |-> "no"]
    ELSE [subscription_status |-> "pending", flag |-> "yes"]

subscribed(state) ==
    IF Get(state, "flag", None) # "yes"
    THEN [access |-> "denied", flag |-> "no"]
    ELSE [access |-> "granted", flag |-> "yes"]

user_selection(state) ==
    IF Get(state, "flag", None) # "yes"
    THEN [selection |-> None, flag |-> "no"]
    ELSE [selection |-> Get(state, "selection", None), flag |-> "yes"]

image_processing(state) ==
    IF Get(state, "flag", None) # "yes"
    THEN [task |-> "not_processed", flag |-> "no"]
    ELSE [task |-> "image_done", flag |-> "yes"]

report_processing(state) ==
    IF Get(state, "flag", None) # "yes"
    THEN [task |-> "not_processed", flag |-> "no"]
    ELSE [task |-> "report_done", flag |-> "yes"]

END == "__end__"

\* workflow.add_edge
Edge ==
    [sign_up |-> "user_registration",
     user_registration |-> "user_login_validation",
     sign_in |-> "user_login_validation",
     forgot_password |-> "user_login_validation",
     user_login_validation |-> "subscription_validation",
     subscription_plan |-> "subscribed",
     subscribed |-> "user_selection",
     image_processing |-> END,
     report_processing |-> END]

_route_sub(x) == Get(x, "subscription", "none")

\* a routing table that lets status none through to subscribed
SubRoutes_none_to_subscribed ==
    [active |-> "subscribed", expired |-> "subscription_plan",
     none |-> "subscribed", failed |-> "subscription_plan",
     unknown |-> "subscription_plan"]

SubRoutes ==
    [active |-> "subscribed", expired |-> "subscription_plan",
     none |-> "subscription_plan", failed |-> "subscription_plan",
     unknown |-> "subscription_plan"]

\* a _route_sel whose default is report
_route_sel_default_report(x) ==
    LET sel == Get(x, "selection", None)
    IN IF sel = "image" THEN "image"
       ELSE IF sel = "report" THEN "report"
       ELSE "report"

_route_sel(x) ==
    LET sel == Get(x, "selection", None)
    IN IF sel = "image" THEN "image"
       ELSE IF sel = "report" THEN "report"
       ELSE "image"

SelRoutes == [image |-> "image_processing", report |-> "report_processing"]

----------------------------------------------------------------------------
(* SpecFlow: runs of the workflow graph.  No entry point is set in the     *)
(* source; a run starts at one of the three nodes no edge leads to, on the *)
(* dict its caller passes.  flow.path is the history of the nodes that ran,*)
(* flow.sub_seen and flow.sel_seen the states the two routers were given.  *)

EntryNodes == {"sign_up", "sign_in", "forgot_password"}

Selections == {"image", "report", "video", None}

\* the empty dict, and the keys sign_up with user_registration, sign_in and
\* forgot_password read; each with and without a selection
FlowInputs ==
    LET bases == {EmptyDict,
                  [full_name |-> "Ann", email |-> "ann@x.com", phone |-> "+1555",
                   password |-> "password123", otp_code |-> "token"],
                  [email_or_phone |-> "ann@x.com", password |-> "password123"],
                  [email |-> "ann@x.com", phone |-> "+1555"]}
    IN bases \cup {Fold(TRUE, b, [selection |-> sel]) : b \in bases, sel \in Selections}

\* graph.invoke(input)
flow_invoke(input, start, merge) ==
    /\ flow = NoFlow
    /\ flow' = [node |-> start, state |-> input, merge |-> merge, path |-> <<>>,
                sub_seen |-> EmptyDict, sel_seen |-> EmptyDict]
    /\ UNCHANGED <<dbvars, now, nextToken, call, ret, pre, issued, run, threads>>

\* a node ran, returned out, and its edge was followed
Ran(n, out) ==
    /\ flow.node = n
    /\ flow' = [flow EXCEPT !.state = Fold(flow.merge, flow.state, out),
                            !.path = Append(@, n),
                            !.node = Edge[n]]
    /\ UNCHANGED <<dbvars, now, nextToken, call, ret, pre, issued, run, threads>>

run_sign_up(r) == Ran("sign_up", sign_up(flow.state, r))

run_user_registration(r) == Ran("user_registration", user_registration(flow.state, r))

run_sign_in(r) == Ran("sign_in", sign_in(flow.state, r))

run_forgot_password(r) == Ran("forgot_password", flow_forgot_password(flow.state, r))

run_user_login_validation ==
    Ran("user_login_validation", user_login_validation(flow.state))

\* the node, then the conditional edges on _route_sub
run_subscription_validation(r) ==
    LET x == Fold(flow.merge, flow.state, subscription_validation(flow.state, r))
    IN /\ flow.node = "subscription_validation"
       /\ flow' = [flow EXCEPT !.state = x,
                               !.path = Append(@, "subscription_validation"),
                               !.sub_seen = x,
                               !.node = SubRoutes[_route_sub(x)]]
       /\ UNCHANGED <<dbvars, now, nextToken, call, ret, pre, issued, run, threads>>

run_subscription_plan == Ran("subscription_plan", subscription_plan(flow.state))

run_subscribed == Ran("subscribed", subscribed(flow.state))

\* the node, then the conditional edges on _route_sel
run_user_selection ==
    LET x == Fold(flow.merge, flow.state, user_selection(flow.state))
    IN /\ flow.node = "user_selection"
       /\ flow' = [flow EXCEPT !.state = x,
                               !.path = Append(@, "user_selection"),
                               !.sel_seen = x,
                               !.node = SelRoutes[_route_sel(x)]]
       /\ UNCHANGED <<dbvars, now, nextToken, call, ret, pre, issued, run, threads>>

run_image_processing == Ran("image_processing", image_processing(flow.state))

run_report_processing == Ran("report_processing", report_processing(flow.state))

\* the run has ended and its result went to the caller
flow_return ==
    /\ flow.node = END
    /\ flow' = NoFlow
    /\ UNCHANGED <<dbvars, now, nextToken, call, ret, pre, issued, run, threads>>

NextFlow ==
    \/ \E input \in FlowInputs, start \in EntryNodes, merge \in BOOLEAN :
            flow_invoke(input, start, merge)
    \/ \E r \in RegisterResponses : run_sign_up(r)
    \/ \E r \in VerifyResponses : run_user_registration(r)
    \/ \E r \in LoginResponses : run_sign_in(r)
    \/ \E r \in ForgotResponses : run_forgot_password(r)
    \/ run_user_login_validation
    \/ \E r \in SubscriptionResponses : run_subscription_validation(r)
    \/ run_subscription_plan
    \/ run_subscribed
    \/ run_user_selection
    \/ run_image_processing
    \/ run_report_processing
    \/ flow_return

SpecFlow == Init /\ [][NextFlow]_vars

----------------------------------------------------------------------------
(* Properties.  A state with call # Idle is the state right after that     *)
(* call ran: pre is what the call found, the other variables what it left. *)

HasRow(rows, email, token) == \E r \in rows : r.email = email /\ r.token = token

RowsOf(rows, email) == {r \in rows : r.email = email}

\* token was issued to email for purpose before the call
WasIssued(purpose, email, token) ==
    /\ token \in DOMAIN pre.issued
    /\ pre.issued[token].purpose = purpose
    /\ pre.issued[token].email = email

\* ... and a call has consumed it before this one
WasConsumed(purpose, email, token) ==
    /\ WasIssued(purpose, email, token)
    /\ pre.issued[token].consumed

VerifyTokenError ==
    [status |-> "error", message |-> "Invalid or expired verification token."]

ResetTokenError ==
    [status |-> "error", message |-> "Invalid or expired reset token."]

\* C1: a token that a verify_account (reset_password) call has consumed is
\* refused by every later verify_account (reset_password) call with the same
\* email and token, whatever ran in between and however little time passed.
C1_SingleUse ==
    /\ (call.op = "verify_account"
            /\ WasConsumed("verify", call.email, call.token))
        => (ret = VerifyTokenError /\ users = pre.users)
    /\ (call.op = "reset_password"
            /\ WasConsumed("reset", call.email, call.reset_token))
        => (ret = ResetTokenError /\ users = pre.users)

\* a consumed reset token is replayed before any time has passed, and refused
C1_Witness ==
    /\ call.op = "reset_password"
    /\ WasConsumed("reset", call.email, call.reset_token)
    /\ now = 0
    /\ ret = ResetTokenError

\* C2: when t2 was issued after t1 for the same email and purpose and t1 was
\* not consumed, consuming t1 fails with the invalid-or-expired error and
\* leaves t2 stored and, unless it has expired, acceptable; and right after
\* forgot_password issued a token, the store holds that token for the email.
C2_ReissueInvalidates ==
    /\ call.op = "verify_account" =>
         \A t2 \in DOMAIN pre.issued :
            ( /\ WasIssued("verify", call.email, call.token)
              /\ ~pre.issued[call.token].consumed
              /\ WasIssued("verify", call.email, t2)
              /\ call.token < t2 )
            => /\ ret = VerifyTokenError
               /\ verify_tokens = pre.verify_tokens
    /\ call.op = "reset_password" =>
         \A t2 \in DOMAIN pre.issued :
            ( /\ WasIssued("reset", call.email, call.reset_token)
              /\ ~pre.issued[call.reset_token].consumed
              /\ WasIssued("reset", call.email, t2)
              /\ call.reset_token < t2 )
            => /\ ret = ResetTokenError
               /\ password_resets = pre.password_resets
               /\ \A r \in pre.password_resets :
                    (r.email = call.email /\ r.token = t2 /\ ~(r.expires_at < now))
                        => consume_reset_token_ok(password_resets, call.email, t2, now)
    /\ (call.op = "forgot_password" /\ ret.status \in {"success", "raised"})
        => /\ RowsOf(password_resets, call.email)
                = {[email |-> call.email, token |-> Len(issued),
                    expires_at |-> pre.now + TTL_MIN]}
           /\ Len(issued) = Len(pre.issued) + 1
           /\ consume_reset_token_ok(password_resets, call.email, Len(issued), now)

\* the superseded reset token is tried while its successor is stored, and refused
C2_Witness ==
    /\ call.op = "reset_password"
    /\ WasIssued("reset", call.email, call.reset_token)
    /\ ~pre.issued[call.reset_token].consumed
    /\ \E t2 \in DOMAIN pre.issued :
          /\ WasIssued("reset", call.email, t2)
          /\ call.reset_token < t2
          /\ HasRow(password_resets, call.email, t2)
          /\ consume_reset_token_ok(password_resets, call.email, t2, now)
    /\ ret = ResetTokenError

\* C3: verify_tokens holds at most one row per email, and so does password_resets.
C3_OneTokenPerEmail ==
    /\ \A r1, r2 \in verify_tokens : r1.email = r2.email => r1 = r2
    /\ \A r1, r2 \in password_resets : r1.email = r2.email => r1 = r2

\* forgot_password issued a token for an email that already had one stored
C3_Witness ==
    /\ call.op = "forgot_password"
    /\ ret.status = "success"
    /\ RowsOf(pre.password_resets, call.email) # {}
    /\ RowsOf(password_resets, call.email) # {}
    /\ RowsOf(verify_tokens, call.email) # {}

\* the stored row the call's email and token match has expired
MatchesExpiredRow(rows, email, token) ==
    \E rec \in rows : rec.email = email /\ rec.token = token /\ rec.expires_at < pre.now

\* C4: verify_account with a token that matches a stored verification row
\* whose expires_at is earlier than the current time returns the
\* invalid-or-expired error, leaves the account unverified and deletes every
\* verification token of that email.
C4_ExpiredVerifyTokenRejected ==
    (call.op = "verify_account"
        /\ MatchesExpiredRow(pre.verify_tokens, call.email, call.token))
    => /\ ret = VerifyTokenError
       /\ users = pre.users
       /\ RowsOf(verify_tokens, call.email) = {}

\* C5: reset_password with a token that matches a stored reset row whose
\* expires_at is earlier than the current time returns the invalid-or-expired
\* error, leaves the account's salt and digest as they were and deletes every
\* reset token of that email.
C5_ExpiredResetTokenRejected ==
    (call.op = "reset_password"
        /\ MatchesExpiredRow(pre.password_resets, call.email, call.reset_token))
    => /\ ret = ResetTokenError
       /\ users = pre.users
       /\ RowsOf(password_resets, call.email) = {}

\* reset_password was called with the stored, expired token of an account
C5_Witness ==
    /\ call.op = "reset_password"
    /\ MatchesExpiredRow(pre.password_resets, call.email, call.reset_token)
    /\ get_user_by_identifier(users, call.email) # NoUser
    /\ ret = ResetTokenError

----------------------------------------------------------------------------
(* Login *)

\* the account login_user resolved, in the database as the call found it
LoginAccount == get_user_by_identifier(pre.users, call.identifier)

\* login_user was called with the password of an existing account
LoginWithCorrectPassword ==
    /\ call.op = "login_user"
    /\ LoginAccount # NoUser
    /\ LoginAccount.password_hash = <<LoginAccount.password_salt, call.password>>

\* the usage_limit of the plan the account's subscription resolves to
PlanLimitOf(user_id) ==
    LET rows == {r \in pre.subscriptions : r.user_id = user_id}
        pid == IF rows = {} THEN "free" ELSE (CHOOSE r \in rows : TRUE).plan_id
    IN (CHOOSE p \in pre.plans : p.plan_id = pid).usage_limit

\* today's current_usage of the account in a usage collection
UsageCount(rows, user_id, t) ==
    LET mine == {d \in rows : d.user_id = user_id /\ d.date = t \div MINUTES_PER_DAY}
    IN IF mine = {} THEN 0 ELSE (CHOOSE d \in mine : TRUE).current_usage

QuotaError == [status |-> "error", message |-> "Daily login limit reached."]

Min(a, b) == IF a < b THEN a ELSE b

\* C6: login_user with correct credentials for a verified account returns the
\* quota error and leaves today's usage as it was when current_usage >= the
\* usage_limit of the resolved plan; below the limit it succeeds and
\* current_usage grows by exactly 1.
C6_QuotaGateAtLogin ==
    (LoginWithCorrectPassword /\ LoginAccount.verified) =>
        LET uid == LoginAccount._id
            cur == UsageCount(pre.usage, uid, pre.now)
        IN IF cur >= PlanLimitOf(uid)
           THEN /\ ret = QuotaError
                /\ usage = pre.usage
           ELSE /\ ret.status = "success"
                /\ UsageCount(usage, uid, now) = cur + 1

\* a login is refused with usage exactly at the limit of the plan
C6_Witness ==
    /\ LoginWithCorrectPassword
    /\ LoginAccount.verified
    /\ UsageCount(pre.usage, LoginAccount._id, pre.now) = PlanLimitOf(LoginAccount._id)
    /\ ret = QuotaError

\* C7: with no feature use that day, after k login_user calls with correct
\* credentials of a verified account whose plan has limit L, exactly
\* min(k, L) of them succeeded, they are the first min(k, L), the later ones
\* got the quota error, and today's current_usage is min(k, L).
C7_LoginsUpToLimit ==
    \A L \in {p.usage_limit : p \in plans} :
        (~run.feature_used /\ run.limits = {L}) =>
            /\ run.ok = Min(run.k, L)
            /\ UsageCount(usage, UserIdOf(1), now) = Min(run.k, L)
            /\ (LoginWithCorrectPassword /\ LoginAccount.verified) =>
                    IF run.k <= L THEN ret.status = "success" ELSE ret = QuotaError

\* free plan: three logins succeeded, the fourth is refused, usage stays 3
C7_Witness ==
    /\ ~run.feature_used
    /\ run.limits = {3}
    /\ run.k = 4
    /\ run.ok = 3
    /\ LoginWithCorrectPassword
    /\ ret = QuotaError
    /\ UsageCount(usage, UserIdOf(1), now) = 3

\* C8: login_user with the correct password of an unverified account returns
\* verification_required with the account's email and records no login,
\* whatever the plan and the usage.
C8_UnverifiedLogin ==
    (LoginWithCorrectPassword /\ ~LoginAccount.verified) =>
        /\ ret = [status |-> "verification_required",
                  message |-> "Verification required. Check email for OTP.",
                  email |-> LoginAccount.email]
        /\ usage = pre.usage

\* an unverified account on the pro plan, with usage recorded, tries to log in
C8_Witness ==
    /\ LoginWithCorrectPassword
    /\ ~LoginAccount.verified
    /\ PlanLimitOf(LoginAccount._id) = 100
    /\ UsageCount(usage, LoginAccount._id, now) > 0
    /\ ret.status = "verification_required"

\* the account of email has consumed its verification token
HasVerified(email) ==
    \E t \in DOMAIN pre.issued :
        WasConsumed("verify", email, t)

\* C9: verify_account with the token issued at registration succeeds and sets
\* the account's verified flag; and for an account that has done so,
\* login_user with the stored (registered) password succeeds when usage is
\* below the plan's limit.
C9_VerifyThenLogin ==
    /\ (call.op = "verify_account"
            /\ WasIssued("verify", call.email, call.token)
            /\ ~pre.issued[call.token].consumed)
        => /\ ret = [status |-> "success", message |-> "Account verified. Please login."]
           /\ get_user_by_identifier(users, call.email).verified
    /\ (LoginWithCorrectPassword
            /\ HasVerified(LoginAccount.email)
            /\ UsageCount(pre.usage, LoginAccount._id, pre.now) < PlanLimitOf(LoginAccount._id))
        => /\ ret.status = "success"
           /\ ret.user.id = LoginAccount._id

\* the registered account, verified with its registration token, logs in
C9_Witness ==
    /\ LoginWithCorrectPassword
    /\ HasVerified(LoginAccount.email)
    /\ call.password \in SolePassword
    /\ ret.status = "success"

SecretFields == {"password_salt", "password_hash"}

\* C10: no payload an orchestrator operation returns has a password_salt or
\* password_hash field, at the top or in the user, subscription, usage or
\* plans it carries; the user of a successful login is exactly id, name,
\* email and phone of the account.
C10_NoPasswordMaterial ==
    /\ DOMAIN ret \cap SecretFields = {}
    /\ "user_id" \in DOMAIN ret => ret.user_id \in UserIdInputs
    /\ "subscription" \in DOMAIN ret => DOMAIN ret.subscription \cap SecretFields = {}
    /\ "usage" \in DOMAIN ret => DOMAIN ret.usage \cap SecretFields = {}
    /\ "plans" \in DOMAIN ret =>
            \A i \in DOMAIN ret.plans : DOMAIN ret.plans[i] \cap SecretFields = {}
    /\ "user" \in DOMAIN ret =>
            /\ call.op = "login_user"
            /\ ret.user = [id |-> LoginAccount._id, name |-> LoginAccount.full_name,
                           email |-> LoginAccount.email, phone |-> LoginAccount.phone]
    /\ (call.op = "login_user" /\ ret.status = "success") => "user" \in DOMAIN ret
    /\ \A i \in DOMAIN users : DOMAIN create_user(users[i]) \cap SecretFields = {}

\* a login succeeded and returned the user
C10_Witness ==
    /\ call.op = "login_user"
    /\ ret.status = "success"
    /\ DOMAIN ret.user = {"id", "name", "email", "phone"}

----------------------------------------------------------------------------
(* Failures *)

NotFoundError == [status |-> "error", message |-> "User not found."]

CredentialsError == [status |-> "error", message |-> "Invalid credentials."]

\* accounts, tokens, subscriptions and usage are as the call found them
StoresUntouched ==
    /\ users = pre.users
    /\ verify_tokens = pre.verify_tokens
    /\ password_resets = pre.password_resets
    /\ subscriptions = pre.subscriptions
    /\ usage = pre.usage

\* C11: login_user returns the account-not-found error when no account has
\* the identifier as email or phone, and the invalid-credentials error when
\* the account exists but the password does not match, verified or not and
\* whatever its usage; in both cases accounts, tokens and usage are unchanged.
C11_LoginFailures ==
    call.op = "login_user" =>
        /\ MatchingUsers(pre.users, call.identifier) = {}
                => (ret = NotFoundError /\ StoresUntouched)
        /\ (MatchingUsers(pre.users, call.identifier) # {}
                /\ ~LoginWithCorrectPassword)
                => (ret = CredentialsError /\ StoresUntouched)

\* a verified account with usage recorded today logs in with a wrong password
C11_Witness ==
    /\ call.op = "login_user"
    /\ LoginAccount # NoUser
    /\ LoginAccount.verified
    /\ UsageCount(pre.usage, LoginAccount._id, pre.now) > 0
    /\ ~LoginWithCorrectPassword
    /\ ret = CredentialsError

\* an account the call found has the email or the phone of the call
IdentityTaken ==
    \E i \in 1..Len(pre.users) :
        pre.users[i].email = call.email \/ pre.users[i].phone = call.phone

\* C12: register_user with an email or a phone of an existing account fails
\* and changes nothing: no account is added, no verification token is
\* deleted, replaced or issued, and no subscription row is created or modified.
C12_DuplicateRegisterChangesNothing ==
    (call.op = "register_user" /\ IdentityTaken)
    => /\ ret.status \notin {"success"}
       /\ StoresUntouched
       /\ issued = pre.issued

\* a registration reuses only the phone of an account whose verification
\* token is still pending
C12_Witness ==
    /\ call.op = "register_user"
    /\ \E i \in 1..Len(pre.users) :
            /\ pre.users[i].phone = call.phone
            /\ pre.users[i].email # call.email
            /\ RowsOf(verify_tokens, pre.users[i].email) # {}
    /\ RowsOf(verify_tokens, call.email) = {}
    /\ ret = Raised("DuplicateKeyError")

\* C13: in every reachable state, also of concurrently interleaved
\* register_user requests, no two accounts have the same email and no two
\* accounts have the same phone.
C13_UniqueIdentities ==
    \A i, j \in 1..Len(users) :
        i # j => (users[i].email # users[j].email /\ users[i].phone # users[j].phone)

\* while one request is between its insert and its token, a concurrent one
\* for the same phone was refused and another identity has registered
C13_Witness ==
    /\ Len(users) = 2
    /\ \E t1, t2 \in Threads :
            /\ threads[t1].pc = "insert_one"
            /\ threads[t2].pc = "raised"
            /\ threads[t2].type = "DuplicateKeyError"
            /\ threads[t2].phone = threads[t1].phone
            /\ threads[t2].email # threads[t1].email

\* the plan register_user asks set_subscription for is in the catalog
RegisterPlanKnown ==
    \E pl \in pre.plans :
        pl.plan_id = (IF call.plan_id = "" THEN "free" ELSE call.plan_id)

\* register_user is repeated with the arguments of a call that failed after
\* it had persisted the account
RepeatsFailedRegister ==
    /\ call.op = "register_user"
    /\ RegisterArgs(call.full_name, call.email, call.phone, call.password) \in run.failed

\* C14: register_user does not partially commit: when a call fails after
\* account creation, either nothing was persisted or repeating the call with
\* a plan of the catalog (and a working dispatch) completes the registration:
\* it succeeds and the account has its subscription row.
C14_RegisterRetryable ==
    (RepeatsFailedRegister /\ RegisterPlanKnown /\ run.smtp = "sent")
    => /\ ret.status = "success"
       /\ \E r \in subscriptions : r.user_id = ret.user_id

\* the call issued a token
IssuedToken == Len(issued) = Len(pre.issued) + 1

\* C15: a failing dispatch is not fatal: when sending the email fails in
\* register_user (asked for a plan of the catalog) or in forgot_password,
\* the token the call issued stays stored and the call returns success; for
\* register_user the subscription row of the new account exists.
C15_DispatchFailureNonFatal ==
    /\ (call.op = "register_user" /\ IssuedToken /\ RegisterPlanKnown
            /\ run.smtp = "smtp_error")
        => /\ HasRow(verify_tokens, call.email, Len(issued))
           /\ ret.status = "success"
           /\ \E r \in subscriptions : r.user_id = UserIdOf(Len(users))
    /\ (call.op = "forgot_password" /\ IssuedToken /\ run.smtp = "smtp_error")
        => /\ HasRow(password_resets, call.email, Len(issued))
           /\ ret.status = "success"

\* C16: the expected business failures are returned as an error result and
\* never raised: a duplicate identity in register_user, an unknown plan in
\* register_user and upgrade_plan, an unknown account, a wrong password and
\* an exhausted quota in login_user, and a token that matches no stored row
\* or an expired one in verify_account and reset_password.
C16_FailuresAreResults ==
    /\ (call.op = "register_user" /\ IdentityTaken) => ret.status = "error"
    /\ (call.op = "register_user" /\ ~IdentityTaken /\ ~RegisterPlanKnown
            /\ run.smtp = "sent")
        => ret.status = "error"
    /\ (call.op = "upgrade_plan"
            /\ \A pl \in pre.plans : pl.plan_id # call.new_plan_id)
        => ret.status = "error"
    /\ (call.op = "login_user"
            /\ (\/ LoginAccount = NoUser
                \/ ~LoginWithCorrectPassword
                \/ /\ LoginAccount.verified
                   /\ UsageCount(pre.usage, LoginAccount._id, pre.now)
                        >= PlanLimitOf(LoginAccount._id)))
        => ret.status = "error"
    /\ (call.op = "verify_account"
            /\ ~HasRow(pre.verify_tokens, call.email, call.token))
        => ret.status = "error"
    /\ (call.op = "reset_password"
            /\ (\/ ~HasRow(pre.password_resets, call.email, call.reset_token)
                \/ MatchesExpiredRow(pre.password_resets, call.email, call.reset_token)))
        => ret.status = "error"

MismatchError == [status |-> "error", message |-> "Email/phone mismatch."]

\* C17: forgot_password issues a reset token only when one account has both
\* the supplied email and the supplied phone; when the email belongs to one
\* account and the phone to another it returns the mismatch error and
\* password_resets is unchanged.
C17_ForgotRequiresBothMatch ==
    call.op = "forgot_password" =>
        /\ (password_resets # pre.password_resets \/ issued # pre.issued
                \/ ret.status = "success")
            => \E i \in 1..Len(pre.users) :
                    /\ pre.users[i].email = call.email
                    /\ pre.users[i].phone = call.phone
        /\ (\E i, j \in 1..Len(pre.users) :
                /\ i # j
                /\ pre.users[i].email = call.email
                /\ pre.users[j].phone = call.phone)
            => /\ ret = MismatchError
               /\ password_resets = pre.password_resets
               /\ issued = pre.issued

\* the email of one account with the phone of another
C17_Witness ==
    /\ call.op = "forgot_password"
    /\ \E i, j \in 1..Len(pre.users) :
            /\ i # j
            /\ pre.users[i].email = call.email
            /\ pre.users[j].phone = call.phone
    /\ password_resets = pre.password_resets
    /\ ret = MismatchError

\* password verifies against the salt and digest stored in doc
Verifies(doc, password) ==
    verify_password(password, doc.password_salt, doc.password_hash)

\* C18: after reset_password(email, t, p) succeeds, p verifies against the
\* account's stored salt and digest and the previous password, when it
\* differs from p, no longer does; when reset_password fails, the stored salt
\* and digest are unchanged, so the previous password still verifies.
C18_PasswordReplaced ==
    call.op = "reset_password" =>
        IF ret.status = "success"
        THEN /\ \E i \in 1..Len(users) : users[i].email = call.email
             /\ Len(users) = Len(pre.users)
             /\ \A i \in 1..Len(users) :
                    IF users[i].email = call.email
                    THEN /\ Verifies(users[i], call.new_password)
                         /\ \A old \in Passwords :
                                (old # call.new_password /\ Verifies(pre.users[i], old))
                                    => ~Verifies(users[i], old)
                    ELSE users[i] = pre.users[i]
        ELSE /\ users = pre.users
             /\ \A i \in 1..Len(users), old \in Passwords :
                    Verifies(pre.users[i], old) => Verifies(users[i], old)

\* a reset replaced the password by a different one under a different salt
C18_Witness ==
    /\ call.op = "reset_password"
    /\ ret.status = "success"
    /\ \E i \in 1..Len(users) :
            /\ users[i].email = call.email
            /\ users[i].password_salt # pre.users[i].password_salt
            /\ ~Verifies(pre.users[i], call.new_password)
            /\ Verifies(users[i], call.new_password)

----------------------------------------------------------------------------
(* Subscriptions *)

\* the plan upgrade_plan asks set_subscription for is in the catalog
UpgradePlanKnown == \E pl \in pre.plans : pl.plan_id = call.new_plan_id

SubscriptionRows(rows, user_id) == {r \in rows : r.user_id = user_id}

\* C19: set_subscription with a plan_id that is not in the catalog fails with
\* the unknown-plan error and leaves the stored subscriptions as they were;
\* with a catalog plan_id it leaves exactly one row for the account, bound to
\* plan_id, and the rows of other accounts as they were.
C19_SetSubscription ==
    call.op = "upgrade_plan" =>
        IF ~UpgradePlanKnown
        THEN /\ ret = Raised("ValueError")
             /\ subscriptions = pre.subscriptions
        ELSE /\ ret.status = "success"
             /\ SubscriptionRows(subscriptions, call.user_id)
                    = {[user_id |-> call.user_id, plan_id |-> call.new_plan_id]}
             /\ \A r \in subscriptions \cup pre.subscriptions :
                    r.user_id # call.user_id
                        => (r \in subscriptions /\ r \in pre.subscriptions)

\* an account subscribed to one plan is moved to another plan of the catalog
C19_Witness ==
    /\ call.op = "upgrade_plan"
    /\ UpgradePlanKnown
    /\ SubscriptionRows(pre.subscriptions, call.user_id) # {}
    /\ \A r \in SubscriptionRows(pre.subscriptions, call.user_id) :
            r.plan_id # call.new_plan_id
    /\ Cardinality(SubscriptionRows(subscriptions, call.user_id)) = 1

\* C20: for every plan_id of the catalog, the view set_subscription returns
\* equals the view an immediately following get_subscription returns for the
\* account, and it carries the plan_id, usage_limit and features of that plan.
C20_SetGetRoundTrip ==
    (call.op = "upgrade_plan" /\ UpgradePlanKnown) =>
        /\ ret.status = "success"
        /\ ret.subscription = get_subscription(plans, subscriptions, call.user_id)
        /\ subscriptions = get_subscription_rows(plans, subscriptions, call.user_id)
        /\ ret.subscription.plan_id = call.new_plan_id
        /\ \E pl \in SeedPlans :
                /\ pl.plan_id = call.new_plan_id
                /\ ret.subscription.usage_limit = pl.usage_limit
                /\ ret.subscription.features = pl.features

\* an account on the free plan was set to basic and the basic view returned
C20_Witness ==
    /\ call.op = "upgrade_plan"
    /\ call.new_plan_id = "basic"
    /\ \E r \in pre.subscriptions : r.user_id = call.user_id /\ r.plan_id = "free"
    /\ ret.status = "success"
    /\ ret.subscription.usage_limit = 10
    /\ get_subscription(plans, subscriptions, call.user_id).usage_limit = 10

\* the account has a stored subscription and its plan_id is not in the catalog
StoredRowMissesPlan(ps, rows, user_id) ==
    \E r \in rows :
        /\ r.user_id = user_id
        /\ \A pl \in ps : pl.plan_id # r.plan_id

\* a get_subscription on this database resolves the plan and writes nothing
ResolvesWithoutWrite(ps, rows, user_id) ==
    LET mine == SubscriptionRows(rows, user_id)
        pid == IF mine = {} THEN "free" ELSE (CHOOSE r \in mine : TRUE).plan_id
    IN \E pl \in ps : pl.plan_id = pid

----------------------------------------------------------------------------
(* Usage *)

FeatureRecorded == [status |-> "success", message |-> "Feature recorded."]

\* C22: use_feature is not quota-checked: it returns success and increases
\* today's current_usage by exactly 1, also when current_usage has already
\* reached or passed the usage_limit of the plan.
C22_UseFeatureUngated ==
    call.op = "use_feature" =>
        /\ ret = FeatureRecorded
        /\ UsageCount(usage, call.user_id, now)
                = UsageCount(pre.usage, call.user_id, pre.now) + 1

\* a feature is used by a registered account whose usage is past its limit
C22_Witness ==
    /\ call.op = "use_feature"
    /\ \E i \in 1..Len(pre.users) : pre.users[i]._id = call.user_id
    /\ UsageCount(pre.usage, call.user_id, pre.now) > PlanLimitOf(call.user_id)
    /\ ret = FeatureRecorded
    /\ UsageCount(usage, call.user_id, now) > UsageCount(pre.usage, call.user_id, pre.now)

\* the min(N, 100) most recent of the N recorded activities, newest first
MostRecentFirst ==
    [i \in 1..Min(Len(run.acts), MAX_ACTIVITIES) |-> run.acts[Len(run.acts) - i + 1]]

\* C23: after N record_activity calls for one account on one day, and no
\* login, get_usage reports current_usage = N and recent_activities is the
\* min(N, 100) most recent entries, newest first.
C23_ActivityTrail ==
    /\ get_usage(usage, UserIdOf(1), now)
            = [current_usage |-> Len(run.acts), period |-> "Today",
               recent_activities |-> MostRecentFirst]
    /\ call.op = "get_user_usage"
            => /\ ret.usage.current_usage = Len(run.acts)
               /\ ret.usage.recent_activities = MostRecentFirst

\* usage is read after 101 activities: the list holds the latest 100
C23_Witness ==
    /\ call.op = "get_user_usage"
    /\ Len(run.acts) = MAX_ACTIVITIES + 1
    /\ ret.usage.current_usage = MAX_ACTIVITIES + 1
    /\ Len(ret.usage.recent_activities) = MAX_ACTIVITIES
    /\ ret.usage.recent_activities[1].timestamp = MAX_ACTIVITIES
    /\ ret.usage.recent_activities[MAX_ACTIVITIES].timestamp = 1

\* the usage records of the account for the day of t
UsageRecords(rows, user_id, t) ==
    {d \in rows : d.user_id = user_id /\ d.date = t \div MINUTES_PER_DAY}

\* C24: get_usage for an account with no usage record for today returns
\* current_usage = 0 and an empty activity list, and get_usage never creates
\* or modifies a usage record.
C24_GetUsageReadOnly ==
    call.op = "get_user_usage" =>
        /\ usage = pre.usage
        /\ UsageRecords(pre.usage, call.user_id, pre.now) = {}
            => ret.usage = [current_usage |-> 0, period |-> "Today",
                            recent_activities |-> <<>>]
        /\ \A d \in UsageRecords(pre.usage, call.user_id, pre.now) :
                /\ ret.usage.current_usage = d.current_usage
                /\ ret.usage.recent_activities = d.recent_activities

\* usage is read for an account without a record while another account has one
C24_Witness ==
    /\ call.op = "get_user_usage"
    /\ UsageRecords(pre.usage, call.user_id, pre.now) = {}
    /\ pre.usage # {}
    /\ ret.usage.current_usage = 0
    /\ usage = pre.usage

\* the call recorded a login or a feature use
RecordsUsage ==
    \/ call.op = "use_feature"
    \/ call.op = "login_user" /\ ret.status = "success"

\* the account the call recorded usage for
RecordedFor == IF call.op = "use_feature" THEN call.user_id ELSE LoginAccount._id

\* C25: there is at most one usage record per account and UTC day; no call
\* decreases the current_usage of today's record or changes the record of
\* an earlier day; and once the date has advanced, get_usage returns the
\* zeroed view and the first login or feature use of the new day makes
\* current_usage 1.
C25_DailyUsage ==
    /\ \A d1, d2 \in usage :
            (d1.user_id = d2.user_id /\ d1.date = d2.date) => d1 = d2
    /\ call # Idle =>
            \A d \in pre.usage :
                IF d.date = pre.now \div MINUTES_PER_DAY
                THEN \E e \in usage : /\ e.user_id = d.user_id
                                       /\ e.date = d.date
                                       /\ e.current_usage >= d.current_usage
                ELSE d \in usage
    /\ (call.op = "get_user_usage"
            /\ UsageRecords(pre.usage, call.user_id, pre.now) = {})
        => ret.usage = [current_usage |-> 0, period |-> "Today",
                        recent_activities |-> <<>>]
    /\ (RecordsUsage /\ UsageRecords(pre.usage, RecordedFor, pre.now) = {})
        => \E e \in usage : /\ e.user_id = RecordedFor
                             /\ e.date = now \div MINUTES_PER_DAY
                             /\ e.current_usage = 1

\* the first login of a new day, after a day with three recorded uses
C25_Witness ==
    /\ call.op = "login_user"
    /\ ret.status = "success"
    /\ now >= MINUTES_PER_DAY
    /\ UsageCount(pre.usage, LoginAccount._id, pre.now - MINUTES_PER_DAY) = 3
    /\ UsageCount(usage, LoginAccount._id, now - MINUTES_PER_DAY) = 3
    /\ UsageCount(pre.usage, LoginAccount._id, pre.now) = 0
    /\ UsageCount(usage, LoginAccount._id, now) = 1

\* the last login before this one was refused for quota and an upgrade
\* succeeded in between
RefusedThenUpgraded == run.before = <<TRUE, TRUE>>

\* C26: upgrade_plan takes effect whatever the account's verification state,
\* and at once: after it set a plan of the catalog, get_subscription reports
\* the usage_limit of that plan (100 for pro); and a verified account that
\* was refused at login for quota is admitted on its next login the same day
\* once upgraded to a plan whose limit exceeds its current usage.
C26_UpgradeTakesEffect ==
    /\ (call.op = "upgrade_plan" /\ UpgradePlanKnown)
        => /\ ret.status = "success"
           /\ \A pl \in SeedPlans :
                pl.plan_id = call.new_plan_id
                    => /\ ret.subscription.usage_limit = pl.usage_limit
                       /\ get_subscription(plans, subscriptions, call.user_id).usage_limit
                            = pl.usage_limit
    /\ (call.op = "get_user_subscription"
            /\ [user_id |-> call.user_id, plan_id |-> "pro"] \in pre.subscriptions)
        => ret.subscription.usage_limit = 100
    /\ (LoginWithCorrectPassword /\ LoginAccount.verified /\ RefusedThenUpgraded
            /\ UsageCount(pre.usage, LoginAccount._id, pre.now) < PlanLimitOf(LoginAccount._id))
        => /\ ret.status = "success"
           /\ UsageCount(usage, LoginAccount._id, now)
                = UsageCount(pre.usage, LoginAccount._id, pre.now) + 1

\* refused on free with usage 3, upgraded to pro, admitted at the next login
C26_Witness ==
    /\ LoginWithCorrectPassword
    /\ LoginAccount.verified
    /\ RefusedThenUpgraded
    /\ UsageCount(pre.usage, LoginAccount._id, pre.now) >= 3
    /\ PlanLimitOf(LoginAccount._id) = 100
    /\ ret.status = "success"

\* plan_id and usage_limit of the plans of a catalog
PlanLimits(ps) == {<<pl.plan_id, pl.usage_limit>> : pl \in ps}

\* C27: however often init_subs_db runs, the catalog afterwards is exactly
\* the three plans free (limit 3), basic (limit 10) and pro (limit 100),
\* each plan_id once, and a run that finds plans leaves them and the
\* subscriptions as they were.
C27_SeedIdempotent ==
    /\ \A p1, p2 \in plans : p1.plan_id = p2.plan_id => p1 = p2
    /\ call.op = "bootstrap_databases"
        => /\ PlanLimits(plans) = {<<"free", 3>>, <<"basic", 10>>, <<"pro", 100>>}
           /\ Cardinality(plans) = 3
           /\ pre.plans # {} => plans = pre.plans
           /\ subscriptions = pre.subscriptions
    /\ call.op = "list_all_plans" => Len(ret.plans) = 3

\* bootstrap runs again over a seeded catalog and stored subscriptions
C27_Witness ==
    /\ call.op = "bootstrap_databases"
    /\ Cardinality(pre.plans) = 3
    /\ Cardinality(pre.subscriptions) = 2
    /\ plans = pre.plans

----------------------------------------------------------------------------
(* Concurrency *)

\* the request on thread th has reported success
ReportsSuccess(th) ==
    threads[th].pc = "returned" /\ threads[th].status = "success"

\* C28: of two verify_account (reset_password) requests for the same email
\* and token that run concurrently, lookup and delete steps interleaved, at
\* most one reports success.
C28_NoDoubleConsumption ==
    \A t1, t2 \in Threads :
        (t1 # t2 /\ ReportsSuccess(t1) /\ ReportsSuccess(t2))
            => ~(/\ threads[t1].op = threads[t2].op
                 /\ threads[t1].email = threads[t2].email
                 /\ threads[t1].token = threads[t2].token)

\* C29: when record_login and record_activity calls for the same account and
\* day run concurrently, storage steps interleaved, then once no call is under
\* way current_usage equals the number of completed calls and the activity
\* list holds one entry for every completed record_activity call (up to the
\* cap of 100).
C29_NoLostUpdates ==
    UnderWay = {} =>
        \A uid \in SoleUserId :
            /\ get_usage(usage, uid, now).current_usage = run.k
            /\ Len(get_usage(usage, uid, now).recent_activities)
                   = Min(Len(run.acts), MAX_ACTIVITIES)

\* no request is between the delete_many and the insert_one of an issue
NoIssueUnderWay ==
    \A th \in Threads : threads[th].pc \notin {"issue_delete_many", "issue_insert_one"}

\* C30: when two issue operations for the same email and purpose run
\* concurrently, delete and insert steps interleaved, at most one token row
\* of that email and purpose remains once both have finished.
C30_IssueRaceFree ==
    NoIssueUnderWay =>
        \A e \in Emails :
            /\ Cardinality(RowsOf(password_resets, e)) <= 1
            /\ Cardinality(RowsOf(verify_tokens, e)) <= 1

----------------------------------------------------------------------------
(* The verified flag *)

\* the call is a verify_account that succeeded on a stored verification
\* token issued to email and not consumed before
VerifiedBy(email) ==
    /\ call.op = "verify_account"
    /\ call.email = email
    /\ ret.status = "success"
    /\ HasRow(pre.verify_tokens, email, call.token)
    /\ WasIssued("verify", email, call.token)
    /\ ~pre.issued[call.token].consumed

\* C35: an account's verified flag goes from false to true only in a
\* verify_account call that successfully consumed a stored verification token
\* of that account's email; it never returns to false, accounts are created
\* unverified and no other operation changes the flag; hence every successful
\* login_user is for an account that completed verification.
C35_VerifiedEarned ==
    call # Idle =>
        /\ Len(pre.users) <= Len(users)
        /\ \A i \in 1..Len(users) :
              IF i <= Len(pre.users)
              THEN /\ pre.users[i].verified => users[i].verified
                   /\ (~pre.users[i].verified /\ users[i].verified)
                        => VerifiedBy(users[i].email)
                   /\ call.op # "verify_account"
                        => users[i].verified = pre.users[i].verified
              ELSE ~users[i].verified
        /\ (call.op = "login_user" /\ ret.status = "success")
              => /\ LoginAccount.verified
                 /\ HasVerified(LoginAccount.email)

\* an unverified account whose password was reset becomes verified only by
\* the verify_account call that follows
C35_Witness ==
    /\ VerifiedBy(call.email)
    /\ ~get_user_by_identifier(pre.users, call.email).verified
    /\ get_user_by_identifier(users, call.email).verified
    /\ get_user_by_identifier(pre.users, call.email).password_hash
            # <<get_user_by_identifier(pre.users, call.email).password_salt, "password123">>

----------------------------------------------------------------------------
(* The shared counter *)

\* the successful logins and the feature uses recorded before the call
RecordedBefore ==
    run.ok + run.features - (IF ret.status = "success" THEN 1 ELSE 0)

\* C34: login_user (correct credentials, verified account) is refused for
\* quota exactly when the successful logins plus the feature uses recorded
\* for the account today are >= the plan's usage_limit; feature uses alone
\* can exhaust the login quota.
C34_SharedCounter ==
    (LoginWithCorrectPassword /\ LoginAccount.verified) =>
        /\ ret = QuotaError <=> RecordedBefore >= PlanLimitOf(LoginAccount._id)
        /\ ret # QuotaError => ret.status = "success"

\* no login has succeeded, features used the whole quota, the login is refused
C34_Witness ==
    /\ LoginWithCorrectPassword
    /\ LoginAccount.verified
    /\ run.ok = 0
    /\ run.features = PlanLimitOf(LoginAccount._id)
    /\ ret = QuotaError

\* C36: under concurrent login_user calls with correct credentials for the
\* same verified account, usage check and record_login interleaved and no
\* feature used, the successful logins granted that day never exceed the
\* plan's usage_limit.
C36_ConcurrentLoginsWithinLimit ==
    \A uid \in SoleUserId :
        run.ok <= get_subscription(plans, subscriptions, uid).usage_limit

----------------------------------------------------------------------------
(* Token purposes *)

\* token was issued for purpose, to whatever email, before the call
IssuedFor(purpose, token) ==
    token \in DOMAIN pre.issued /\ pre.issued[token].purpose = purpose

\* C33: a token issued for verification is never accepted by reset_password
\* and a token issued for reset is never accepted by verify_account; issuing
\* or consuming a token of one purpose leaves the tokens of the other purpose
\* as they were.
C33_PurposesIsolated ==
    /\ (call.op = "reset_password" /\ IssuedFor("verify", call.reset_token))
          => (ret = ResetTokenError /\ users = pre.users)
    /\ (call.op = "verify_account" /\ IssuedFor("reset", call.token))
          => (ret = VerifyTokenError /\ users = pre.users)
    /\ call.op \in {"register_user", "verify_account"}
          => password_resets = pre.password_resets
    /\ call.op \in {"forgot_password", "reset_password"}
          => verify_tokens = pre.verify_tokens

\* the stored, unexpired verification token of an account that also holds a
\* reset token is presented to reset_password
C33_Witness ==
    /\ call.op = "reset_password"
    /\ HasRow(pre.verify_tokens, call.email, call.reset_token)
    /\ RowsOf(pre.password_resets, call.email) # {}
    /\ pre.now = 0
    /\ ret = ResetTokenError
    /\ password_resets = pre.password_resets
    /\ verify_tokens = pre.verify_tokens

----------------------------------------------------------------------------
(* Workflow *)

Running == flow # NoFlow

InPath(n) == \E i \in 1..Len(flow.path) : flow.path[i] = n

\* the node that ran after the i-th, or the one about to run
NodeAfter(i) == IF i < Len(flow.path) THEN flow.path[i + 1] ELSE flow.node

NotActive == {"none", "expired", "failed", "unknown"}

\* C31: from subscription_validation, status active leads to subscribed
\* without visiting subscription_plan, and each of none, expired, failed and
\* unknown leads to subscription_plan and then to subscribed; in every run
\* user_selection is reached only after subscribed.
C31_RoutingOnSubscription ==
    /\ SubRoutes[_route_sub([subscription |-> "active"])] = "subscribed"
    /\ \A st \in NotActive :
            SubRoutes[_route_sub([subscription |-> st])] = "subscription_plan"
    /\ Running =>
        /\ \A i \in 1..Len(flow.path) :
              flow.path[i] = "subscription_validation" =>
                LET st == flow.sub_seen["subscription"]
                IN /\ st \in NotActive \cup {"active"}
                   /\ st = "active" =>
                         /\ NodeAfter(i) = "subscribed"
                         /\ ~InPath("subscription_plan")
                         /\ flow.node # "subscription_plan"
                   /\ st \in NotActive =>
                         /\ NodeAfter(i) = "subscription_plan"
                         /\ i < Len(flow.path) => NodeAfter(i + 1) = "subscribed"
        /\ flow.node = "user_selection" => InPath("subscribed")
        /\ \A i \in 1..Len(flow.path) :
              flow.path[i] = "user_selection" =>
                \E j \in 1..(i - 1) : flow.path[j] = "subscribed"

C31_Witness ==
    /\ Running
    /\ flow.node = END
    /\ flow.sub_seen["subscription"] = "none"
    /\ InPath("subscription_plan")
    /\ InPath("user_selection")

FeatureNodes == {"image_processing", "report_processing"}

\* C32: _route_sel sends selection image to image_processing and selection
\* report to report_processing, and every other value, a missing selection or
\* an empty state to image_processing; exactly one of the two feature nodes
\* runs per workflow run and the run then ends.
C32_FeatureRouting ==
    /\ \A x \in FlowInputs :
            SelRoutes[_route_sel(x)] =
                IF Get(x, "selection", None) = "report"
                THEN "report_processing" ELSE "image_processing"
    /\ Running =>
        LET ran == {i \in 1..Len(flow.path) : flow.path[i] \in FeatureNodes}
        IN /\ \A i \in 1..Len(flow.path) :
                 flow.path[i] = "user_selection" =>
                    NodeAfter(i) = IF Get(flow.sel_seen, "selection", None) = "report"
                                   THEN "report_processing" ELSE "image_processing"
           /\ \A i \in ran : i = Len(flow.path) /\ flow.node = END
           /\ flow.node = END => Cardinality(ran) = 1

C32_Witness ==
    /\ Running
    /\ flow.node = END
    /\ Get(flow.sel_seen, "selection", None) = "video"
    /\ flow.path[Len(flow.path)] = "image_processing"

====
